---------------------------- MODULE Spec2Model ----------------------------
(***************************************************************************)
(* A model of the TSM processing workflow of src/s3_process_to_geotiff.py  *)
(* (swath -> GeoTIFF, reclassification, ROI clipping, daily composites).   *)
(*                                                                         *)
(* Numbers.  Geographic coordinates and pixel sizes are exact rationals    *)
(* [n, d]; a distance is planar and measured in kilometres (the source     *)
(* searches by chord length in metres, which agrees with it over the few   *)
(* kilometres modelled).  A floating point value is a record               *)
(* [k, n, d] with k one of "num", "nan", "inf", "-inf"; a "num" is the     *)
(* rational n/d.  Rounding of float32/float64 arithmetic is not modelled.  *)
(***************************************************************************)
EXTENDS Integers, Sequences, FiniteSets, TLC

(***************************************************************************)
(* Bounds of the model.                                                    *)
(***************************************************************************)
MaxCoord == 2      \* swath pixels lie at 0, StepKm, ..., MaxCoord * StepKm
StepKm == 4        \* spacing of the swath positions, in km
MaxPix == 2        \* pixels of a swath

(***************************************************************************)
(* Program constants.                                                      *)
(***************************************************************************)
RADIUS_OF_INFLUENCE_KM == 5   \* radius_of_influence=5000 (metres)

(***************************************************************************)
(* Rational arithmetic.                                                    *)
(***************************************************************************)
Abs(x) == IF x < 0 THEN -x ELSE x

RECURSIVE Gcd(_, _)
Gcd(a, b) == IF b = 0 THEN a ELSE Gcd(b, a % b)

Rat(n, d) ==
    LET g == Gcd(Abs(n), Abs(d))
        s == IF d < 0 THEN -1 ELSE 1
    IN  [n |-> (s * n) \div g, d |-> (s * d) \div g]

RInt(i) == [n |-> i, d |-> 1]
RAdd(a, b) == Rat(a.n * b.d + b.n * a.d, a.d * b.d)
RSub(a, b) == Rat(a.n * b.d - b.n * a.d, a.d * b.d)
RMul(a, b) == Rat(a.n * b.n, a.d * b.d)
RDiv(a, b) == Rat(a.n * b.d, a.d * b.n)
RLt(a, b) == a.n * b.d < b.n * a.d
RLe(a, b) == a.n * b.d <= b.n * a.d
RMin(a, b) == IF RLe(a, b) THEN a ELSE b
RMax(a, b) == IF RLe(a, b) THEN b ELSE a
\* TLA+'s \div rounds towards minus infinity
RFloor(a) == a.n \div a.d
RCeil(a) == -((-a.n) \div a.d)

(***************************************************************************)
(* Floating point values.                                                  *)
(***************************************************************************)
Num(i) == [k |-> "num", n |-> i, d |-> 1]
NumR(r) == [k |-> "num", n |-> r.n, d |-> r.d]
NaN == [k |-> "nan", n |-> 0, d |-> 1]
PosInf == [k |-> "inf", n |-> 0, d |-> 1]
NegInf == [k |-> "-inf", n |-> 0, d |-> 1]
AsRat(x) == [n |-> x.n, d |-> x.d]

isfinite(x) == x.k = "num"
isnan(x) == x.k = "nan"
\* x < y for y a finite number; a comparison with NaN is False
FLess(x, y) == \/ x.k = "-inf"
               \/ x.k = "num" /\ RLt(AsRat(x), AsRat(y))

(***************************************************************************)
(* Products of sets: the sequences s with s[i] \in S[i].                   *)
(***************************************************************************)
RECURSIVE Prod(_)
Prod(S) ==
    IF S = <<>> THEN {<<>>}
    ELSE {<<x>> \o t : x \in Head(S), t \in Prod(Tail(S))}


(***************************************************************************)
(* STEP 3: swath to GeoTIFF (create_geotiff_from_swath).                   *)
(* A swath is the sequence of its pixels [tsm, lat, lon] (the arrays       *)
(* TSM_NN, latitude and longitude, flattened).  A raster is                *)
(* [x0, y0, px, py, w, h, data]: the GeoTransform (x0, px, 0, y0, 0, -py)  *)
(* and the band, data[row][col] with row 1 the northernmost.               *)
(***************************************************************************)
Rng(s) == {s[i] : i \in DOMAIN s}

\* mask = np.isfinite(tsm) & np.isfinite(lat) & np.isfinite(lon)
mask(swath) ==
    {i \in DOMAIN swath :
        isfinite(swath[i].tsm) /\ isfinite(swath[i].lat) /\ isfinite(swath[i].lon)}

\* np.nanmin / np.nanmax of an array of finite numbers and NaN
nanmin(S) ==
    LET F == {AsRat(x) : x \in {y \in S : isfinite(y)}}
    IN  CHOOSE m \in F : \A x \in F : RLe(m, x)

nanmax(S) ==
    LET F == {AsRat(x) : x \in {y \in S : isfinite(y)}}
    IN  CHOOSE m \in F : \A x \in F : RLe(x, m)

\* a variant of arange_len that drops the last, partial step
arange_len_floor(start, stop, step) ==
    LET n == RFloor(RDiv(RSub(stop, start), step))
    IN  IF n < 0 THEN 0 ELSE n

\* len(np.arange(start, stop, step)) for step > 0
arange_len(start, stop, step) ==
    LET n == RCeil(RDiv(RSub(stop, start), step))
    IN  IF n < 0 THEN 0 ELSE n

\* geom.AreaDefinition(..., len(ref_lons), len(ref_lats),
\*                     (lon_min, lat_min, lon_max, lat_max))
AreaDefinition(swath, res_deg) ==
    LET lat_min == nanmin({p.lat : p \in Rng(swath)})
        lat_max == nanmax({p.lat : p \in Rng(swath)})
        lon_min == nanmin({p.lon : p \in Rng(swath)})
        lon_max == nanmax({p.lon : p \in Rng(swath)})
    IN  [lon_min |-> lon_min, lat_min |-> lat_min,
         lon_max |-> lon_max, lat_max |-> lat_max,
         width |-> arange_len(lon_min, lon_max, res_deg),
         height |-> arange_len(lat_min, lat_max, res_deg)]

\* size of a cell of an area with width, height >= 1
pixel_size_x(area) == RDiv(RSub(area.lon_max, area.lon_min), RInt(area.width))
pixel_size_y(area) == RDiv(RSub(area.lat_max, area.lat_min), RInt(area.height))

\* centre of the cell in row i, column j (from 1) of a lattice
CentreX(x0, px, j) == RAdd(x0, RMul(Rat(2 * j - 1, 2), px))
CentreY(y0, py, i) == RSub(y0, RMul(Rat(2 * i - 1, 2), py))

\* squared distance from the point (x, y) to a geolocated swath pixel, km^2
\* (a fraction, not reduced)
Dist2(x, y, p) ==
    LET dxn == x.n * p.lon.d - p.lon.n * x.d
        dxd == x.d * p.lon.d
        dyn == y.n * p.lat.d - p.lat.n * y.d
        dyd == y.d * p.lat.d
    IN  [n |-> dxn * dxn * dyd * dyd + dyn * dyn * dxd * dxd,
         d |-> dxd * dxd * dyd * dyd]

\* the swath pixels the kd-tree holds: those with a usable position
valid_input_index(swath) ==
    {i \in DOMAIN swath : isfinite(swath[i].lat) /\ isfinite(swath[i].lon)}

InRadius(x, y, p) ==
    RLt(Dist2(x, y, p), RInt(RADIUS_OF_INFLUENCE_KM * RADIUS_OF_INFLUENCE_KM))

\* a variant of get_neighbour_info without the radius: the nearest pixels at
\* whatever distance
get_neighbour_info_unbounded(swath, x, y) ==
    LET near == valid_input_index(swath)
    IN  {i \in near :
            \A j \in near : RLe(Dist2(x, y, swath[i]), Dist2(x, y, swath[j]))}

\* a variant of get_neighbour_info that takes any pixel within the radius,
\* the nearest or not
get_neighbour_info_any(swath, x, y) ==
    {i \in valid_input_index(swath) : InRadius(x, y, swath[i])}

\* kdt.get_neighbour_info(..., radius_of_influence=5000, neighbours=1) at the
\* point (x, y): the nearest pixels within the radius (several when equidistant)
get_neighbour_info(swath, x, y) ==
    LET near == {i \in valid_input_index(swath) : InRadius(x, y, swath[i])}
    IN  {i \in near :
            \A j \in near : RLe(Dist2(x, y, swath[i]), Dist2(x, y, swath[j]))}

\* kdt.get_sample_from_neighbour_info("nn", ..., fill_value=np.nan) at (x, y):
\* the values the cell may get (one, unless equidistant pixels differ)
get_sample_from_neighbour_info(swath, x, y) ==
    LET idx == get_neighbour_info(swath, x, y)
    IN  IF idx = {} THEN {NaN} ELSE {swath[i].tsm : i \in idx}

\* the grids the resampling of a swath onto an area may give
Resample(swath, area) ==
    LET px == pixel_size_x(area)
        py == pixel_size_y(area)
        row(i) == Prod([j \in 1..area.width |->
                    get_sample_from_neighbour_info(swath,
                        CentreX(area.lon_min, px, j), CentreY(area.lat_max, py, i))])
    IN  Prod([i \in 1..area.height |-> row(i)])

\* a variant of create_geotiff_from_swath without the test of the mask
create_geotiff_unmasked(swath, res_deg) ==
    LET area == AreaDefinition(swath, res_deg)
    IN  IF area.width = 0 \/ area.height = 0
        THEN {[status |-> "error", area |-> area]}
        ELSE {[status |-> "saved", area |-> area,
               raster |-> [x0 |-> area.lon_min, y0 |-> area.lat_max,
                           px |-> pixel_size_x(area), py |-> pixel_size_y(area),
                           w |-> area.width, h |-> area.height, data |-> g]] :
              g \in Resample(swath, area)}

\* The outcomes of create_geotiff_from_swath(tsm_nc, geo_nc, out_tif, res_deg):
\*   "no_valid_pixels": the message is printed and nothing is written;
\*   "error": the grid has no column or no row, no dataset can be created
\*            for it and the call ends in an exception;
\*   "saved": the raster written to out_tif.
create_geotiff_from_swath(swath, res_deg) ==
    IF mask(swath) = {} THEN {[status |-> "no_valid_pixels"]}
    ELSE LET area == AreaDefinition(swath, res_deg)
         IN  IF area.width = 0 \/ area.height = 0
             THEN {[status |-> "error", area |-> area]}
             ELSE {[status |-> "saved", area |-> area,
                    raster |-> [x0 |-> area.lon_min, y0 |-> area.lat_max,
                                px |-> pixel_size_x(area), py |-> pixel_size_y(area),
                                w |-> area.width, h |-> area.height, data |-> g]] :
                   g \in Resample(swath, area)}


(***************************************************************************)
(* STEP 4: reclassify negative TSM to zero.                                *)
(***************************************************************************)
\* a variant of where_negative that turns a negative value into a gap
where_negative_nan(v) == IF FLess(v, Num(0)) /\ ~isnan(v) THEN NaN ELSE v

\* a variant of where_negative that leaves every value as it is
where_negative_kept(v) == v

\* np.where((data < 0) & ~np.isnan(data), 0, data), one element
where_negative(v) == IF FLess(v, Num(0)) /\ ~isnan(v) THEN Num(0) ELSE v

\* the raster reclassify_negative_to_zero(in_tif, out_tif) writes to out_tif
reclassify_negative_to_zero(r) ==
    [r EXCEPT !.data = [i \in 1..r.h |-> [j \in 1..r.w |-> where_negative(r.data[i][j])]]]

(***************************************************************************)
(* STEP 5: clip to the ROI (clip_geotiff).                                 *)
(* The ROI is a set of rectangles [w, e, s, n] (a multipolygon), given in  *)
(* the CRS of the rasters, EPSG:4326, so that no reprojection takes place. *)
(***************************************************************************)
\* whether the polygon fill burns a pixel with centre (x, y): the centre is in
\* the rectangle, the west and north edges included
CentreIn(rect, x, y) ==
    /\ RLe(RInt(rect.w), x) /\ RLt(x, RInt(rect.e))
    /\ RLt(RInt(rect.s), y) /\ RLe(y, RInt(rect.n))

\* a variant of clip_mask with all_touched=True: the cells that overlap a
\* rectangle
clip_mask_all_touched(r, geometry) ==
    {c \in (1..r.h) \X (1..r.w) :
        \E rect \in geometry :
            /\ RLt(RAdd(r.x0, RMul(RInt(c[2] - 1), r.px)), RInt(rect.e))
            /\ RLt(RInt(rect.w), RAdd(r.x0, RMul(RInt(c[2]), r.px)))
            /\ RLt(RSub(r.y0, RMul(RInt(c[1]), r.py)), RInt(rect.n))
            /\ RLt(RInt(rect.s), RSub(r.y0, RMul(RInt(c[1] - 1), r.py)))}

\* geometry_mask(..., invert=True, all_touched=False): the cells kept
clip_mask(r, geometry) ==
    {c \in (1..r.h) \X (1..r.w) :
        \E rect \in geometry :
            CentreIn(rect, CentreX(r.x0, r.px, c[2]), CentreY(r.y0, r.py, c[1]))}

SetMin(S) == CHOOSE m \in S : \A x \in S : m <= x
SetMax(S) == CHOOSE m \in S : \A x \in S : x <= m

\* raster.rio.clip(roi.geometry, roi.crs): the cells outside the mask become
\* NaN and the raster is cropped to the window of the cells kept (drop=True);
\* NoDataInBounds is raised when no cell is kept
rio_clip(r, geometry) ==
    LET kept == clip_mask(r, geometry)
        r0 == SetMin({c[1] : c \in kept})
        r1 == SetMax({c[1] : c \in kept})
        c0 == SetMin({c[2] : c \in kept})
        c1 == SetMax({c[2] : c \in kept})
    IN  IF kept = {} THEN [status |-> "NoDataInBounds"]
        ELSE [status |-> "saved",
              raster |->
                [x0 |-> RAdd(r.x0, RMul(RInt(c0 - 1), r.px)),
                 y0 |-> RSub(r.y0, RMul(RInt(r0 - 1), r.py)),
                 px |-> r.px, py |-> r.py,
                 w |-> c1 - c0 + 1, h |-> r1 - r0 + 1,
                 data |-> [i \in 1..(r1 - r0 + 1) |-> [j \in 1..(c1 - c0 + 1) |->
                            IF <<r0 + i - 1, c0 + j - 1>> \in kept
                            THEN r.data[r0 + i - 1][c0 + j - 1] ELSE NaN]]]]

\* the outcome of clip_geotiff(geotiff, shapefile, output): the raster written
\* to output, or the exception of the clip
clip_geotiff(r, geometry) == rio_clip(r, geometry)

(***************************************************************************)
(* STEP 6: daily composites (merge_and_average).                           *)
(***************************************************************************)
\* src.bounds: the edges of a raster
West(r) == r.x0
East(r) == RAdd(r.x0, RMul(RInt(r.w), r.px))
North(r) == r.y0
South(r) == RSub(r.y0, RMul(RInt(r.h), r.py))

RMinOf(S) == CHOOSE m \in S : \A x \in S : RLe(m, x)
RMaxOf(S) == CHOOSE m \in S : \A x \in S : RLe(x, m)

\* int(round(x)): halves go to the even neighbour
RRound(x) ==
    LET f == RFloor(x)
        twice == RSub(RMul(RInt(2), x), RInt(2 * f))   \* 2 * (x - f), in [0, 2)
    IN  IF RLt(twice, RInt(1)) THEN f
        ELSE IF RLt(RInt(1), twice) THEN f + 1
        ELSE IF f % 2 = 0 THEN f ELSE f + 1

\* merged, transform = merge(srcs, method="first"): the grid of the mosaic,
\* which spans the bounds of all sources with the cell size of the first
merge(srcs) ==
    LET first == srcs[1]
        dst_w == RMinOf({West(srcs[k]) : k \in DOMAIN srcs})
        dst_e == RMaxOf({East(srcs[k]) : k \in DOMAIN srcs})
        dst_s == RMinOf({South(srcs[k]) : k \in DOMAIN srcs})
        dst_n == RMaxOf({North(srcs[k]) : k \in DOMAIN srcs})
    IN  [x0 |-> dst_w, y0 |-> dst_n, px |-> first.px, py |-> first.py,
         w |-> RRound(RDiv(RSub(dst_e, dst_w), first.px)),
         h |-> RRound(RDiv(RSub(dst_n, dst_s), first.py))]

\* reproject(arr, reproj, src_transform, dst_transform, dst_nodata=np.nan) with
\* the default nearest resampling: a cell of the grid takes the value of the
\* source cell that holds its centre, and NaN where there is none
reproject(src, grid) ==
    [i \in 1..grid.h |-> [j \in 1..grid.w |->
        LET col == RFloor(RDiv(RSub(CentreX(grid.x0, grid.px, j), src.x0), src.px)) + 1
            row == RFloor(RDiv(RSub(src.y0, CentreY(grid.y0, grid.py, i)), src.py)) + 1
        IN  IF row \in 1..src.h /\ col \in 1..src.w THEN src.data[row][col] ELSE NaN]]

RECURSIVE RSum(_)
RSum(q) == IF q = <<>> THEN RInt(0) ELSE RAdd(AsRat(Head(q)), RSum(Tail(q)))

\* a variant of np_nanmean that counts a NaN as a 0 of the mean
np_mean_nan_as_zero(values) ==
    LET q == SelectSeq(values, LAMBDA v : ~isnan(v))
    IN  IF q = <<>> THEN NaN ELSE NumR(RDiv(RSum(q), RInt(Len(values))))

\* np.nanmean of a sequence of values: the mean of those that are not NaN
np_nanmean(values) ==
    LET q == SelectSeq(values, LAMBDA v : ~isnan(v))
        kinds == {q[k].k : k \in DOMAIN q}
    IN  IF q = <<>> \/ {"inf", "-inf"} \subseteq kinds THEN NaN
        ELSE IF "inf" \in kinds THEN PosInf
        ELSE IF "-inf" \in kinds THEN NegInf
        ELSE NumR(RDiv(RSum(q), RInt(Len(q))))

\* merge_and_average(files): the mean raster, on the grid of the mosaic
merge_and_average(srcs) ==
    LET grid == merge(srcs)
        stack == [k \in DOMAIN srcs |-> reproject(srcs[k], grid)]
    IN  [x0 |-> grid.x0, y0 |-> grid.y0, px |-> grid.px, py |-> grid.py,
         w |-> grid.w, h |-> grid.h,
         data |-> [i \in 1..grid.h |-> [j \in 1..grid.w |->
                    np_nanmean([k \in DOMAIN srcs |-> stack[k][i][j]])]]]

(***************************************************************************)
(* File names are sequences of characters.                                 *)
(***************************************************************************)
Digits == {"0", "1", "2", "3", "4", "5", "6", "7", "8", "9"}

\* str.endswith
endswith(name, suffix) ==
    /\ Len(name) >= Len(suffix)
    /\ SubSeq(name, Len(name) - Len(suffix) + 1, Len(name)) = suffix

DotZip == <<".", "z", "i", "p">>
DotSEN3 == <<".", "S", "E", "N", "3">>
DotTif == <<".", "t", "i", "f">>
TSM_ == <<"T", "S", "M", "_">>

\* f"TSM_{sen3.name}.tif"
TifName(dir) == TSM_ \o dir \o DotTif

\* a variant of DailyName without the date
DailyNameUndated(date) == TSM_ \o <<"d", "a", "i", "l", "y">> \o DotTif

\* f"TSM_daily_{date}.tif"
DailyName(date) == TSM_ \o <<"d", "a", "i", "l", "y", "_">> \o date \o DotTif

\* re.compile(r"(\d{8})").search(name): where the first run of eight digits
\* starts, 0 when there is none
search_8_digits(name) ==
    LET at == {i \in 1..(Len(name) - 7) : \A k \in 0..7 : name[i + k] \in Digits}
    IN  IF at = {} THEN 0 ELSE CHOOSE i \in at : \A j \in at : i <= j

\* m.group(1)
group_1(name) == SubSeq(name, search_8_digits(name), search_8_digits(name) + 7)

FILES_TO_KEEP ==
    {"cloud.nc", "common_flags.nc", "cqsf.nc", "geo_coordinates.nc", "iop_nn.nc",
     "par.nc", "tie_geo_coordinates.nc", "tie_geometries.nc", "time_coordinates.nc",
     "tsm_nn.nc", "trsp.nc", "wqsf.nc"}

\* a directory or a dict with one entry written
Put(f, key, val) ==
    [x \in DOMAIN f \cup {key} |-> IF x = key THEN val ELSE f[x]]

Empty == [x \in {} |-> 0]

(***************************************************************************)
(* The state of a run of main().                                           *)
(***************************************************************************)
VARIABLES
    pc,            \* the step main is in, "done", or "aborted" by an exception
    todo,          \* what the loop of the step has yet to visit
    res_deg,       \* OUTPUT_RES_DEG
    roi,           \* the geometry of ROI_SHAPEFILE
    zips,          \* BASE_DIRECTORY: the archives, by file name
    sen3,          \* BASE_DIRECTORY: the product directories, by name
    geotiff_dir,   \* geotiff/: rasters by file name
    recl_dir,      \* geotiff_reclassified/
    clip_dir,      \* geotiff_reclass_clipped/
    composite_dir, \* geotiff_reclass_clipped/daily_composites/
    grouped,       \* main's dict grouped: date -> files
    files,         \* STEP 6: what is left of the list files of glob.glob
    ds,            \* s3_process.py: the stack of rasters along time
    agg,           \* s3_process.py: the temporal composite of the stack
    script,        \* which downloader runs: "s3_download" or "s3_download_local_CL"
    batch_configs, \* the batches the loop over batch_configs has yet to finish
    log_files,     \* logs_dir: the rows of each batch's CSV log, by batch name
    product_list,  \* what is left of product_list in the download loop
    download_dir,  \* download_dir: the archives, by file name
    stats,         \* the counters of the batch that runs
    runs,          \* how many times the downloader was started again
    all_stats,     \* download_multiple_batches: the list of (batch_name, stats)
    srcs,          \* merge_and_average: the datasets opened, in order
    stack,         \* merge_and_average: the names of the arrays stacked so far
    call           \* the last call of a step's function: its input and outcome

vars == <<pc, todo, res_deg, roi, zips, sen3, geotiff_dir, recl_dir, clip_dir,
          composite_dir, grouped, files, ds, agg, script, batch_configs,
          log_files, product_list, download_dir, stats, runs, all_stats, srcs, stack,
          call>>

\* the variables of s3_process.py alone
stackVars == <<ds, agg>>
\* no stack yet
NoStack == [k |-> "None"]

NoCall == [fn |-> "none"]

\* the variables of the steps inside merge_and_average
srcVars == <<srcs, stack>>

\* merge_and_average is not followed step by step
NoSources == srcs = <<>> /\ stack = <<>>

\* the variables of the downloaders alone
dlVars ==
    <<script, batch_configs, log_files, product_list, download_dir, stats, runs,
      all_stats>>

\* the counters before a batch runs
NoStats == [total |-> 0, downloaded |-> 0, skipped |-> 0, failed |-> 0]

\* no downloader runs
NoDownloads ==
    /\ script = "none"
    /\ batch_configs = <<>>
    /\ log_files = [x \in {} |-> 0]
    /\ product_list = <<>>
    /\ download_dir = [x \in {} |-> 0]
    /\ stats = NoStats
    /\ runs = 0
    /\ all_stats = <<>>

\* a variant of UnzipOne that removes the archive whether or not it could be
\* extracted
UnzipOneRemoveAll ==
    /\ pc = "unzip"
    /\ \E z \in todo :
        /\ todo' = todo \ {z}
        /\ call' = [fn |-> "unzip_and_delete", arg |-> z,
                    printed |-> IF ~endswith(z, DotZip) THEN "nothing"
                                ELSE IF zips[z].bad THEN "Bad zip file"
                                ELSE "Unzipped"]
        /\ sen3' = IF endswith(z, DotZip) /\ ~zips[z].bad
                   THEN Put(sen3, zips[z].dir,
                            [files |-> zips[z].files, swath |-> zips[z].swath])
                   ELSE sen3
        /\ zips' = [y \in DOMAIN zips \ {z} |-> zips[y]]
    /\ UNCHANGED <<pc, res_deg, roi, geotiff_dir, recl_dir, clip_dir,
                   composite_dir, grouped, files, stackVars, dlVars, srcVars>>

(***************************************************************************)
(* main, STEP 1: unzip_and_delete, one archive of os.listdir(directory).   *)
(* An archive is [bad, dir, files, swath]: whether it is malformed, and    *)
(* the product directory it holds.                                         *)
(***************************************************************************)
UnzipOne ==
    /\ pc = "unzip"
    /\ \E z \in todo :
        /\ todo' = todo \ {z}
        /\ call' = [fn |-> "unzip_and_delete", arg |-> z,
                    printed |-> IF ~endswith(z, DotZip) THEN "nothing"
                                ELSE IF zips[z].bad THEN "Bad zip file"
                                ELSE "Unzipped"]
        /\ IF endswith(z, DotZip) /\ ~zips[z].bad
           THEN /\ sen3' = Put(sen3, zips[z].dir,
                               [files |-> zips[z].files, swath |-> zips[z].swath])
                /\ zips' = [y \in DOMAIN zips \ {z} |-> zips[y]]
           ELSE UNCHANGED <<sen3, zips>>
    /\ UNCHANGED <<pc, res_deg, roi, geotiff_dir, recl_dir, clip_dir,
                   composite_dir, grouped, files, stackVars, dlVars, srcVars>>

(***************************************************************************)
(* main, STEP 2: cleanup_netcdf_files, then the listing of STEP 3.         *)
(***************************************************************************)
Cleanup ==
    /\ pc = "unzip" /\ todo = {}
    /\ sen3' = [d \in DOMAIN sen3 |->
                 IF endswith(d, DotSEN3)
                 THEN [sen3[d] EXCEPT !.files = @ \cap FILES_TO_KEEP]
                 ELSE sen3[d]]
    /\ call' = [fn |-> "cleanup_netcdf_files"]
    /\ pc' = "geotiff"
    /\ todo' = {d \in DOMAIN sen3 : endswith(d, DotSEN3)}
    /\ UNCHANGED <<res_deg, roi, zips, geotiff_dir, recl_dir, clip_dir,
                   composite_dir, grouped, files, stackVars, dlVars, srcVars>>

(***************************************************************************)
(* main, STEP 3: for sen3 in base_dir.glob("*.SEN3"): ...                  *)
(***************************************************************************)
GeotiffOne ==
    /\ pc = "geotiff"
    /\ \E d \in todo :
        /\ todo' = todo \ {d}
        /\ IF {"tsm_nn.nc", "geo_coordinates.nc"} \subseteq sen3[d].files
           THEN \E o \in create_geotiff_from_swath(sen3[d].swath, res_deg) :
                /\ call' = [fn |-> "create_geotiff_from_swath", arg |-> d,
                            out |-> o]
                /\ geotiff_dir' = IF o.status = "saved"
                                  THEN Put(geotiff_dir, TifName(d), o.raster)
                                  ELSE geotiff_dir
                /\ pc' = IF o.status = "error" THEN "aborted" ELSE pc
           ELSE UNCHANGED <<call, geotiff_dir, pc>>
    /\ UNCHANGED <<res_deg, roi, zips, sen3, recl_dir, clip_dir, composite_dir,
                   grouped, files, stackVars, dlVars, srcVars>>

(***************************************************************************)
(* main, STEP 4: for tif in geotiff_dir.glob("*.tif"): ...                 *)
(***************************************************************************)
ReclassifyOne ==
    /\ pc = "reclassify"
    /\ \E t \in todo :
        /\ todo' = todo \ {t}
        /\ recl_dir' = Put(recl_dir, t, reclassify_negative_to_zero(geotiff_dir[t]))
        /\ call' = [fn |-> "reclassify_negative_to_zero", arg |-> t]
    /\ UNCHANGED <<pc, res_deg, roi, zips, sen3, geotiff_dir, clip_dir,
                   composite_dir, grouped, files, stackVars, dlVars, srcVars>>

(***************************************************************************)
(* main, STEP 5: for tif in recl_dir.glob("*.tif"): clip_geotiff(...)      *)
(* main catches no exception: one raised by the clip ends the run.         *)
(***************************************************************************)
ClipOne ==
    /\ pc = "clip"
    /\ \E t \in todo :
        LET o == clip_geotiff(recl_dir[t], roi)
        IN  /\ todo' = todo \ {t}
            /\ call' = [fn |-> "clip_geotiff", arg |-> t, status |-> o.status]
            /\ clip_dir' = IF o.status = "saved" THEN Put(clip_dir, t, o.raster)
                           ELSE clip_dir
            /\ pc' = IF o.status = "saved" THEN pc ELSE "aborted"
    /\ UNCHANGED <<res_deg, roi, zips, sen3, geotiff_dir, recl_dir,
                   composite_dir, grouped, files, stackVars, dlVars, srcVars>>

(***************************************************************************)
(* main, STEP 6: the files of clip_dir are grouped by the first eight      *)
(* digits of their names; glob lists them in an order of its own.          *)
(***************************************************************************)
Orders(S) ==
    {q \in [1..Cardinality(S) -> S] : \A i, j \in DOMAIN q : q[i] = q[j] => i = j}

\* files = glob.glob(str(clip_dir / "*.tif")); grouped = {}
Glob ==
    /\ pc = "clip" /\ todo = {}
    /\ files' \in Orders(DOMAIN clip_dir)
    /\ grouped' = Empty
    /\ pc' = "group"
    /\ call' = [fn |-> "glob"]
    /\ UNCHANGED <<todo, res_deg, roi, zips, sen3, geotiff_dir, recl_dir, clip_dir,
                   composite_dir, stackVars, dlVars, srcVars>>

\* for f in files: m = pattern.search(os.path.basename(f));
\*                 if m: grouped.setdefault(m.group(1), []).append(f)
\* The loop prints nothing, whether the name matches or not.
GroupOne ==
    /\ pc = "group" /\ files # <<>>
    /\ LET f == Head(files)
           m == search_8_digits(f) # 0
           flist == IF group_1(f) \in DOMAIN grouped THEN grouped[group_1(f)] ELSE <<>>
       IN  /\ grouped' = IF m THEN Put(grouped, group_1(f), Append(flist, f))
                          ELSE grouped
           /\ call' = [fn |-> "group", arg |-> f, matched |-> m, printed |-> FALSE]
    /\ files' = Tail(files)
    /\ UNCHANGED <<pc, todo, res_deg, roi, zips, sen3, geotiff_dir, recl_dir, clip_dir,
                   composite_dir, stackVars, dlVars, srcVars>>

\* for date, flist in grouped.items(): merge_and_average(flist), write
CompositeOne ==
    /\ pc = "composite"
    /\ \E date \in todo :
        LET flist == grouped[date]
        IN  /\ todo' = todo \ {date}
            /\ composite_dir' =
                 Put(composite_dir, DailyName(date),
                     merge_and_average([k \in DOMAIN flist |-> clip_dir[flist[k]]]))
            /\ call' = [fn |-> "merge_and_average", arg |-> date]
    /\ UNCHANGED <<pc, res_deg, roi, zips, sen3, geotiff_dir, recl_dir, clip_dir,
                   grouped, files, stackVars, dlVars, srcVars>>

\* a variant of Advance that does not wait for the end of the list files
AdvanceEarly ==
    /\ todo = {}
    /\ pc \in {"geotiff", "reclassify", "group", "composite"}
    /\ pc' = CASE pc = "geotiff" -> "reclassify"
               [] pc = "reclassify" -> "clip"
               [] pc = "group" -> "composite"
               [] pc = "composite" -> "done"
    /\ todo' = CASE pc = "geotiff" -> DOMAIN geotiff_dir
                 [] pc = "reclassify" -> DOMAIN recl_dir
                 [] pc = "group" -> DOMAIN grouped
                 [] pc = "composite" -> {}
    /\ UNCHANGED <<res_deg, roi, zips, sen3, geotiff_dir, recl_dir, clip_dir,
                   composite_dir, grouped, call, files, stackVars, dlVars, srcVars>>

(***************************************************************************)
(* main: from the end of one loop to the listing of the next.              *)
(***************************************************************************)
Advance ==
    /\ todo = {}
    /\ pc \in {"geotiff", "reclassify", "group", "composite"}
    /\ pc = "group" => files = <<>>
    /\ pc' = CASE pc = "geotiff" -> "reclassify"
               [] pc = "reclassify" -> "clip"
               [] pc = "group" -> "composite"
               [] pc = "composite" -> "done"
    /\ todo' = CASE pc = "geotiff" -> DOMAIN geotiff_dir
                 [] pc = "reclassify" -> DOMAIN recl_dir
                 [] pc = "group" -> DOMAIN grouped
                 [] pc = "composite" -> {}
    /\ UNCHANGED <<res_deg, roi, zips, sen3, geotiff_dir, recl_dir, clip_dir,
                   composite_dir, grouped, call, files, stackVars, dlVars, srcVars>>

Next ==
    \/ UnzipOne
    \/ Cleanup
    \/ GeotiffOne
    \/ ReclassifyOne
    \/ ClipOne
    \/ Glob
    \/ GroupOne
    \/ CompositeOne
    \/ Advance

(***************************************************************************)
(* A run of main over up to three archives.                                *)
(***************************************************************************)
\* OUTPUT_RES_DEG, as the user configures it: half the spacing of the swath
\* positions, or one and a half
ResChoices == {Rat(StepKm, 2), Rat(3 * StepKm, 2)}

ProductA == <<"A", "_", "2", "0", "1", "8", "0", "1", "0", "5", "T",
              "0", "9", "3", "0", "0", "0">>
ProductB == <<"B", "_", "2", "0", "1", "8", "0", "1", "0", "5", "T",
              "1", "1", "0", "0", "0", "0">>
ProductC == <<"A", "_", "2", "0", "1", "8", "0", "1", "0", "6", "T",
              "0", "9", "3", "0", "0", "0">>
Products == {ProductA, ProductB, ProductC}

\* a pixel with measurement t at latitude and longitude la, lo (in StepKm)
Pix(t, la, lo) == [tsm |-> t, lat |-> Num(la * StepKm), lon |-> Num(lo * StepKm)]

RunSwaths ==
    {<<Pix(Num(5), 0, 0), Pix(Num(-2), 1, 1)>>,      \* a negative measurement
     <<Pix(Num(10), 0, 0), Pix(NaN, 1, 1)>>,         \* the same extent, a gap
     <<Pix(Num(20), 1, 1), Pix(Num(30), 2, 2)>>,     \* an overlapping extent
     <<Pix(NaN, 0, 0), Pix(NaN, 1, 1)>>,             \* no valid pixel
     <<Pix(Num(5), 0, 0)>>,                          \* one pixel
     <<Pix(Num(5), 10, 10), Pix(Num(5), 11, 11)>>}   \* away from the ROI

BothFiles == {"tsm_nn.nc", "geo_coordinates.nc", "Oa01_reflectance.nc"}

\* the archives a product may come in
Archives(product) ==
    {[bad |-> FALSE, dir |-> product \o DotSEN3, files |-> BothFiles, swath |-> s] :
        s \in RunSwaths}
    \cup {[bad |-> FALSE, dir |-> product \o DotSEN3,
           files |-> BothFiles \ {"geo_coordinates.nc"},
           swath |-> <<Pix(Num(5), 0, 0), Pix(Num(-2), 1, 1)>>],
          [bad |-> TRUE, dir |-> product \o DotSEN3, files |-> {},
           swath |-> <<>>]}

\* ROI_SHAPEFILE: two rectangles over the south-west of the swath positions
RunRoi ==
    {[w |-> 1, e |-> StepKm + 1, s |-> -1, n |-> 2 * StepKm - 1],
     [w |-> 1, e |-> 2 * StepKm - 1, s |-> -1, n |-> StepKm - 1]}

Init ==
    /\ pc = "unzip"
    /\ res_deg \in ResChoices
    /\ roi = RunRoi
    /\ \E present \in SUBSET Products :
         \E pick \in [present -> UNION {Archives(p) : p \in Products}] :
            /\ \A p \in present : pick[p] \in Archives(p)
            /\ zips = [z \in {p \o DotZip : p \in present} |->
                        pick[CHOOSE p \in present : p \o DotZip = z]]
    /\ todo = DOMAIN zips
    /\ sen3 = Empty /\ geotiff_dir = Empty /\ recl_dir = Empty
    /\ clip_dir = Empty /\ composite_dir = Empty /\ grouped = Empty /\ files = <<>>
    /\ call = NoCall
    /\ ds = NoStack /\ agg = NoStack
    /\ NoDownloads
    /\ NoSources

Spec == Init /\ [][Next]_vars

(***************************************************************************)
(* Step 3 on every swath of the bounded domain.                            *)
(***************************************************************************)
Coords == {Num(c * StepKm) : c \in 0..MaxCoord} \cup {NaN}
TsmValues == {NaN, Num(-2), Num(5)}
\* a pixel with a position has any of the values; the value of a pixel without a
\* position is never read past the mask, one finite value stands for all
Pixels ==
    {p \in [tsm : TsmValues, lat : Coords, lon : Coords] :
        (isnan(p.lat) \/ isnan(p.lon)) => p.tsm = Num(5)}

\* an order of the pixels: a swath is listed once, not once per permutation
FKey(x) == IF isnan(x) THEN -1 ELSE x.n + 2
PixKey(p) == (FKey(p.tsm) * 100 + FKey(p.lat)) * 100 + FKey(p.lon)

Swaths ==
    UNION {{s \in [1..n -> Pixels] :
              \A i \in 1..(n - 1) : PixKey(s[i]) <= PixKey(s[i + 1])} :
           n \in 1..MaxPix}


InitSwath ==
    /\ pc = "geotiff"
    /\ res_deg \in ResChoices
    /\ \E s \in Swaths :
         sen3 = [d \in {ProductA \o DotSEN3} |->
                    [files |-> {"tsm_nn.nc", "geo_coordinates.nc"}, swath |-> s]]
    /\ todo = DOMAIN sen3
    /\ roi = {}
    /\ zips = Empty /\ geotiff_dir = Empty /\ recl_dir = Empty
    /\ clip_dir = Empty /\ composite_dir = Empty /\ grouped = Empty /\ files = <<>>
    /\ call = NoCall
    /\ ds = NoStack /\ agg = NoStack
    /\ NoDownloads
    /\ NoSources

SpecSwath == InitSwath /\ [][GeotiffOne]_vars


(***************************************************************************)
(* Claims about create_geotiff_from_swath.                                 *)
(***************************************************************************)
Created == call.fn = "create_geotiff_from_swath"
Saved == Created /\ call.out.status = "saved"
SwathIn == sen3[call.arg].swath
RasterOut == geotiff_dir[TifName(call.arg)]
Cells(r) == (1..r.h) \X (1..r.w)
CellX(r, c) == CentreX(r.x0, r.px, c[2])
CellY(r, c) == CentreY(r.y0, r.py, c[1])
Value(r, c) == r.data[c[1]][c[2]]
\* the swath samples within the radius of influence of the centre of cell c
Within(r, c, swath) ==
    LET x == CellX(r, c)
        y == CellY(r, c)
    IN  {p \in DOMAIN swath :
            /\ isfinite(swath[p].lat) /\ isfinite(swath[p].lon)
            /\ RLt(Dist2(x, y, swath[p]),
                   RInt(RADIUS_OF_INFLUENCE_KM * RADIUS_OF_INFLUENCE_KM))}

\* C1: every cell of the written raster that is not NaN holds the measurement
\* value of a swath pixel within the search radius of the cell; no value is
\* blended or invented.
C1_ExactCopy ==
    Saved =>
        LET r == RasterOut
            swath == SwathIn
        IN  \A c \in Cells(r) :
                ~isnan(Value(r, c)) =>
                    \E p \in Within(r, c, swath) : swath[p].tsm = Value(r, c)

\* a raster with a cell that holds a measurement and a cell left without
\* one, of a swath with two different measurements
C1_Witness ==
    /\ Saved
    /\ \E c \in Cells(RasterOut) : isfinite(Value(RasterOut, c))
    /\ \E c \in Cells(RasterOut) : isnan(Value(RasterOut, c))
    /\ \E p, q \in mask(SwathIn) : SwathIn[p].tsm # SwathIn[q].tsm

\* C2: every cell holds the value of a nearest swath sample within the radius
\* of influence of its centre, and NaN when no sample lies within the radius.
C2_NearestOrNoData ==
    Saved =>
        LET r == RasterOut
            swath == SwathIn
        IN  \A c \in Cells(r) :
                LET near == Within(r, c, swath)
                    x == CellX(r, c)
                    y == CellY(r, c)
                    d(p) == Dist2(x, y, swath[p])
                IN  IF near = {} THEN isnan(Value(r, c))
                    ELSE \E p \in near :
                            /\ \A q \in near : RLe(d(p), d(q))
                            /\ Value(r, c) = swath[p].tsm

\* a raster with a cell that has two samples within the radius, at different
\* distances and of different values
C2_Witness ==
    /\ Saved
    /\ \E c \in Cells(RasterOut) :
         \E p, q \in Within(RasterOut, c, SwathIn) :
            /\ SwathIn[p].tsm # SwathIn[q].tsm
            /\ RLt(Dist2(CellX(RasterOut, c), CellY(RasterOut, c), SwathIn[p]),
                   Dist2(CellX(RasterOut, c), CellY(RasterOut, c), SwathIn[q]))

\* the extent of the grid of the last call, when it built one
HasGrid == Created /\ call.out.status # "no_valid_pixels"
ExtentX == RSub(call.out.area.lon_max, call.out.area.lon_min)
ExtentY == RSub(call.out.area.lat_max, call.out.area.lat_min)
\* n = floor(extent / res), n = ceil(extent / res)
IsFloor(n, extent, res) ==
    RLe(RMul(RInt(n), res), extent) /\ RLt(extent, RMul(RInt(n + 1), res))
IsCeil(n, extent, res) ==
    RLt(RMul(RInt(n - 1), res), extent) /\ RLe(extent, RMul(RInt(n), res))

\* C9 as claimed: n_cols = floor((lon_max - lon_min) / res_deg) and
\* n_rows = floor((lat_max - lat_min) / res_deg).
C9_FloorCounts ==
    HasGrid => /\ IsFloor(call.out.area.width, ExtentX, res_deg)
               /\ IsFloor(call.out.area.height, ExtentY, res_deg)

\* C9 as amended: n_cols = ceil((lon_max - lon_min) / res_deg) and
\* n_rows = ceil((lat_max - lat_min) / res_deg), the lengths of
\* np.arange(min, max, res_deg).
C9_CeilCounts ==
    HasGrid => /\ IsCeil(call.out.area.width, ExtentX, res_deg)
               /\ IsCeil(call.out.area.height, ExtentY, res_deg)

\* a raster whose extent is not a multiple of the cell size in either direction
C9_Witness ==
    /\ Saved
    /\ ~IsFloor(RasterOut.w, ExtentX, res_deg)
    /\ ~IsFloor(RasterOut.h, ExtentY, res_deg)

\* C10: a swath with a valid pixel gets a grid of at least one column and one
\* row.
C10_GridNotEmpty ==
    (Created /\ mask(SwathIn) # {}) =>
        call.out.area.width >= 1 /\ call.out.area.height >= 1

\* the latitudes and the longitudes of the valid pixels of a swath
ValidLats(swath) == {swath[i].lat : i \in mask(swath)}
ValidLons(swath) == {swath[i].lon : i \in mask(swath)}

\* C11: the bounding box of the grid is the minimum and maximum latitude and
\* longitude over the valid pixels only; a pixel with a position and no
\* measurement does not enlarge it.
C11_ValidPixelBox ==
    HasGrid =>
        /\ call.out.area.lon_min = nanmin(ValidLons(SwathIn))
        /\ call.out.area.lon_max = nanmax(ValidLons(SwathIn))
        /\ call.out.area.lat_min = nanmin(ValidLats(SwathIn))
        /\ call.out.area.lat_max = nanmax(ValidLats(SwathIn))

\* C21: a cell with a valid pixel (finite measurement, latitude and longitude)
\* within the radius of its centre holds a measurement, whatever pixels
\* without a measurement lie nearer: only valid pixels are candidates.
C21_OnlyValidCandidates ==
    Saved =>
        LET r == RasterOut
            swath == SwathIn
        IN  \A c \in Cells(r) :
                (Within(r, c, swath) \cap mask(swath) # {}) => isfinite(Value(r, c))


(***************************************************************************)
(* Step 4 on every one-row raster of the bounded domain.                   *)
(***************************************************************************)
MaxLen == 3   \* pixels of a raster

PixelValues == {NaN, PosInf, NegInf, Num(-2), Num(0), Num(5)}

\* the raster of one row over the cells [0, StepKm) , [StepKm, 2 StepKm), ...
RowRaster(values) ==
    [x0 |-> RInt(0), y0 |-> RInt(StepKm), px |-> RInt(StepKm), py |-> RInt(StepKm),
     w |-> Len(values), h |-> 1, data |-> <<values>>]

RowRasters == {RowRaster(v) : v \in UNION {[1..n -> PixelValues] : n \in 1..MaxLen}}

InitRaster ==
    /\ pc = "reclassify"
    /\ res_deg = RInt(StepKm)
    /\ \E r \in RowRasters : geotiff_dir = [t \in {TifName(ProductA \o DotSEN3)} |-> r]
    /\ todo = DOMAIN geotiff_dir
    /\ roi = {}
    /\ zips = Empty /\ sen3 = Empty /\ recl_dir = Empty
    /\ clip_dir = Empty /\ composite_dir = Empty /\ grouped = Empty /\ files = <<>>
    /\ call = NoCall
    /\ ds = NoStack /\ agg = NoStack
    /\ NoDownloads
    /\ NoSources

SpecRaster == InitRaster /\ [][ReclassifyOne]_vars

(***************************************************************************)
(* Claims about reclassify_negative_to_zero.                               *)
(***************************************************************************)
Reclassified == call.fn = "reclassify_negative_to_zero"
ReclIn == geotiff_dir[call.arg]
ReclOut == recl_dir[call.arg]
NaNCells(r) == {c \in Cells(r) : isnan(Value(r, c))}

\* C3: a finite value below 0 becomes 0; NaN, +inf, -inf and every value >= 0
\* are left unchanged; every raster has an output.
C3_Reclassify ==
    Reclassified =>
        /\ call.arg \in DOMAIN recl_dir
        /\ Cells(ReclOut) = Cells(ReclIn)
        /\ \A c \in Cells(ReclIn) :
            LET v == Value(ReclIn, c)
            IN  Value(ReclOut, c) =
                    IF isfinite(v) /\ RLt(AsRat(v), RInt(0)) THEN Num(0) ELSE v

\* C4: reclassify is idempotent, and the NaN pixels of its output are exactly
\* the NaN pixels of its input.
C4_Idempotent ==
    Reclassified =>
        /\ reclassify_negative_to_zero(ReclOut) = ReclOut
        /\ NaNCells(ReclOut) = NaNCells(ReclIn)

\* a reclassified raster that had a negative value and a NaN
C4_Witness ==
    /\ Reclassified
    /\ \E c \in Cells(ReclIn) : Value(ReclIn, c) = Num(-2)
    /\ NaNCells(ReclIn) # {}
    /\ ReclOut # ReclIn


(***************************************************************************)
(* Step 5 on the rasters and the ROIs of the bounded domain.               *)
(***************************************************************************)
MaxSide == 2   \* rows and columns of a raster

\* the raster of h rows and w columns of cells of StepKm, its south-west
\* corner at (0, 0), every cell with a value of its own
BlockRaster(h, w) ==
    [x0 |-> RInt(0), y0 |-> RInt(h * StepKm), px |-> RInt(StepKm), py |-> RInt(StepKm),
     w |-> w, h |-> h, data |-> [i \in 1..h |-> [j \in 1..w |-> Num(10 * i + j)]]]

BlockRasters == {BlockRaster(h, w) : h, w \in 1..MaxSide}

\* edges of the ROI rectangles: 1 km east (north) of the cell edges
RoiCoords == {c * StepKm + 1 : c \in (-1)..MaxSide}
Rects == {rect \in [w : RoiCoords, e : RoiCoords, s : RoiCoords, n : RoiCoords] :
            rect.w < rect.e /\ rect.s < rect.n}
\* one rectangle, or two
Rois == {{a, b} : a, b \in Rects}

InitClip ==
    /\ pc = "clip"
    /\ res_deg = RInt(StepKm)
    /\ roi \in Rois
    /\ \E r \in BlockRasters : recl_dir = [t \in {TifName(ProductA \o DotSEN3)} |-> r]
    /\ todo = DOMAIN recl_dir
    /\ zips = Empty /\ sen3 = Empty /\ geotiff_dir = Empty
    /\ clip_dir = Empty /\ composite_dir = Empty /\ grouped = Empty /\ files = <<>>
    /\ call = NoCall
    /\ ds = NoStack /\ agg = NoStack
    /\ NoDownloads
    /\ NoSources

SpecClip == InitClip /\ [][ClipOne]_vars

(***************************************************************************)
(* Claims about clip_geotiff.                                              *)
(***************************************************************************)
Clipped == call.fn = "clip_geotiff" /\ call.status = "saved"
ClipIn == recl_dir[call.arg]
ClipOut == clip_dir[call.arg]
\* the bounding box of the ROI
RoiWest == RInt(SetMin({rect.w : rect \in roi}))
RoiEast == RInt(SetMax({rect.e : rect \in roi}))
RoiSouth == RInt(SetMin({rect.s : rect \in roi}))
RoiNorth == RInt(SetMax({rect.n : rect \in roi}))
InRoi(x, y) ==
    \E rect \in roi :
        /\ RLe(RInt(rect.w), x) /\ RLt(x, RInt(rect.e))
        /\ RLt(RInt(rect.s), y) /\ RLe(y, RInt(rect.n))
\* the cell of the input raster with the centre of cell c of the clipped one
SameCentre(c, d) ==
    /\ CellX(ClipOut, c) = CellX(ClipIn, d)
    /\ CellY(ClipOut, c) = CellY(ClipIn, d)
\* every cell with its centre outside the ROI is NaN, every cell with its
\* centre inside has the value of the input cell at that place
ClipValues ==
    \A c \in Cells(ClipOut) :
        IF InRoi(CellX(ClipOut, c), CellY(ClipOut, c))
        THEN \E d \in Cells(ClipIn) :
                SameCentre(c, d) /\ Value(ClipOut, c) = Value(ClipIn, d)
        ELSE isnan(Value(ClipOut, c))
\* the extent of the clipped raster lies in the input raster's
ClipInRaster ==
    /\ RLe(West(ClipIn), West(ClipOut)) /\ RLe(East(ClipOut), East(ClipIn))
    /\ RLe(South(ClipIn), South(ClipOut)) /\ RLe(North(ClipOut), North(ClipIn))

\* C6 as claimed: the extent of the clipped raster is contained in the
\* intersection of the ROI bounding box and the input raster extent; pixels
\* with their centre outside the ROI are NaN, pixels inside keep their value.
C6_ClipExtentInRoiBox ==
    Clipped =>
        /\ ClipInRaster
        /\ RLe(RoiWest, West(ClipOut)) /\ RLe(East(ClipOut), RoiEast)
        /\ RLe(RoiSouth, South(ClipOut)) /\ RLe(North(ClipOut), RoiNorth)
        /\ ClipValues

\* C6 as amended: the extent of the clipped raster is contained in the input
\* raster extent and reaches beyond the ROI bounding box by at most half a
\* pixel on each side; pixels with their centre outside the ROI are NaN, pixels
\* inside keep their value.
C6_ClipExtentHalfPixel ==
    Clipped =>
        LET hx == RMul(Rat(1, 2), ClipOut.px)
            hy == RMul(Rat(1, 2), ClipOut.py)
        IN  /\ ClipInRaster
            /\ RLe(RSub(RoiWest, hx), West(ClipOut))
            /\ RLe(East(ClipOut), RAdd(RoiEast, hx))
            /\ RLe(RSub(RoiSouth, hy), South(ClipOut))
            /\ RLe(North(ClipOut), RAdd(RoiNorth, hy))
            /\ ClipValues

\* a clipped raster that reaches west of the ROI bounding box, with a pixel
\* inside the ROI and a pixel outside it
C6_Witness ==
    /\ Clipped
    /\ RLt(West(ClipOut), RoiWest)
    /\ \E c \in Cells(ClipOut) : InRoi(CellX(ClipOut, c), CellY(ClipOut, c))
    /\ \E c \in Cells(ClipOut) : ~InRoi(CellX(ClipOut, c), CellY(ClipOut, c))


(***************************************************************************)
(* Step 6 on every group of rasters of one day on a common grid.           *)
(***************************************************************************)
MaxGroup == 3   \* rasters of a group

DigitChar == <<"1", "2", "3", "4", "5", "6", "7", "8", "9">>
\* the clipped raster of pass i of 5 January 2018
PassName(i) ==
    TifName(<<"S", DigitChar[i], "_", "2", "0", "1", "8", "0", "1", "0", "5", "T",
              "0", "9", "3", "0", "0", "0">> \o DotSEN3)

\* rasters of two pixels: a value and a gap either way round, two values, two gaps
PairRasters ==
    {RowRaster(v) : v \in {<<Num(10), NaN>>, <<NaN, Num(20)>>, <<Num(20), NaN>>,
                           <<Num(10), Num(20)>>, <<NaN, NaN>>}}

InitMerge ==
    /\ pc = "clip"
    /\ todo = {}
    /\ res_deg = RInt(StepKm)
    /\ roi = {}
    /\ \E n \in 1..MaxGroup : clip_dir \in [{PassName(i) : i \in 1..n} -> PairRasters]
    /\ zips = Empty /\ sen3 = Empty /\ geotiff_dir = Empty /\ recl_dir = Empty
    /\ composite_dir = Empty /\ grouped = Empty /\ files = <<>>
    /\ call = NoCall
    /\ ds = NoStack /\ agg = NoStack
    /\ NoDownloads
    /\ NoSources

NextMerge == Glob \/ GroupOne \/ Advance \/ CompositeOne

SpecMerge == InitMerge /\ [][NextMerge]_vars

(***************************************************************************)
(* Claims about merge_and_average.                                         *)
(***************************************************************************)
Merged == call.fn = "merge_and_average"
Composite == composite_dir[DailyName(call.arg)]
\* the clipped files of the day of the composite
Members == {f \in DOMAIN clip_dir : search_8_digits(f) # 0 /\ group_1(f) = call.arg}
Grid(r) == [x0 |-> r.x0, y0 |-> r.y0, px |-> r.px, py |-> r.py, w |-> r.w, h |-> r.h]
CommonGrid == \A f, g \in Members : Grid(clip_dir[f]) = Grid(clip_dir[g])
\* the members with a value at cell c
ValidAt(c) == {f \in Members : ~isnan(Value(clip_dir[f], c))}

RECURSIVE SumAt(_, _)
SumAt(F, c) ==
    IF F = {} THEN RInt(0)
    ELSE LET f == CHOOSE x \in F : TRUE
         IN  RAdd(AsRat(Value(clip_dir[f], c)), SumAt(F \ {f}, c))

\* C5: on a common grid, a pixel of the composite is the arithmetic mean of the
\* values of the k members that are valid there, and NaN when k = 0; a NaN
\* member counts neither in the sum nor in the divisor.
C5_MeanOfValid ==
    (Merged /\ CommonGrid) =>
        /\ \A f \in Members : Cells(Composite) = Cells(clip_dir[f])
        /\ \A c \in Cells(Composite) :
            LET k == Cardinality(ValidAt(c))
            IN  IF k = 0 THEN isnan(Value(Composite, c))
                ELSE /\ isfinite(Value(Composite, c))
                     /\ RMul(AsRat(Value(Composite, c)), RInt(k)) = SumAt(ValidAt(c), c)

\* a composite of three rasters with a pixel valid in none of them and a pixel
\* valid in two of them, with different values
C5_Witness ==
    /\ Merged /\ CommonGrid
    /\ Cardinality(Members) = 3
    /\ \E c \in Cells(Composite) : ValidAt(c) = {}
    /\ \E c \in Cells(Composite) :
         /\ Cardinality(ValidAt(c)) = 2
         /\ \E f, g \in ValidAt(c) : Value(clip_dir[f], c) # Value(clip_dir[g], c)

(***************************************************************************)
(* Step 6 on directories of clipped files with and without a date.         *)
(***************************************************************************)
MaxFiles == 4   \* files of the directory

\* a pass of the next day, a name with eight digits that are no date, and a
\* name without eight digits in a row
NextDayName ==
    TifName(<<"S", "1", "_", "2", "0", "1", "8", "0", "1", "0", "6", "T",
              "0", "9", "3", "0", "0", "0">> \o DotSEN3)
DigitsName == TifName(<<"S", "1", "_", "1", "2", "3", "4", "5", "6", "7", "8">> \o DotSEN3)
PlainName == TifName(<<"S", "1", "_", "2", "0", "1", "8">> \o DotSEN3)
GroupNames == {PassName(1), PassName(2), NextDayName, DigitsName, PlainName}

InitGroup ==
    /\ pc = "clip"
    /\ todo = {}
    /\ res_deg = RInt(StepKm)
    /\ roi = {}
    /\ \E S \in SUBSET GroupNames :
         /\ Cardinality(S) \in 1..MaxFiles
         /\ clip_dir = [f \in S |-> RowRaster(<<Num(10), NaN>>)]
    /\ zips = Empty /\ sen3 = Empty /\ geotiff_dir = Empty /\ recl_dir = Empty
    /\ composite_dir = Empty /\ grouped = Empty /\ files = <<>>
    /\ call = NoCall
    /\ ds = NoStack /\ agg = NoStack
    /\ NoDownloads
    /\ NoSources

SpecGroup == InitGroup /\ [][NextMerge]_vars

(***************************************************************************)
(* Claims about the grouping and the composites of main.                   *)
(***************************************************************************)
\* the clipped files with a run of eight digits in their name
Dated == {f \in DOMAIN clip_dir : search_8_digits(f) # 0}
\* the groups that hold file f, and how often group d holds it
GroupsOf(f) == {d \in DOMAIN grouped : \E k \in DOMAIN grouped[d] : grouped[d][k] = f}
TimesIn(d, f) == Cardinality({k \in DOMAIN grouped[d] : grouped[d][k] = f})
\* TSM_daily_<key>.tif
NamedAfter(key) == <<"T", "S", "M", "_", "d", "a", "i", "l", "y", "_">> \o key \o DotTif

\* C12: once the composites are written, every clipped file with a date key is
\* in exactly one group, every group has a member, and the composites are
\* exactly the files TSM_daily_<key>.tif of the keys of the groups.
C12_OneCompositePerGroup ==
    pc = "done" =>
        /\ \A f \in Dated :
             \E d \in DOMAIN grouped : GroupsOf(f) = {d} /\ TimesIn(d, f) = 1
        /\ \A d \in DOMAIN grouped : grouped[d] # <<>>
        /\ DOMAIN composite_dir = {NamedAfter(d) : d \in DOMAIN grouped}

\* composites of two groups, one of them of two files, with a file without
\* a key in the directory
C12_Witness ==
    /\ pc = "done"
    /\ Cardinality(DOMAIN grouped) = 2
    /\ \E d \in DOMAIN grouped : Len(grouped[d]) = 2
    /\ Dated # DOMAIN clip_dir

\* the name holds a token YYYYMMDDTHHMMSS: eight digits, T, six digits
HasTimestamp(name) ==
    \E i \in 1..(Len(name) - 14) :
        /\ \A k \in 0..7 : name[i + k] \in Digits
        /\ name[i + 8] = "T"
        /\ \A k \in 9..14 : name[i + k] \in Digits

\* C13: a file whose name holds no timestamp token is in no group, and its
\* exclusion is reported when the grouping visits it.
C13_UntimedExcludedAndReported ==
    \A f \in DOMAIN clip_dir :
        ~HasTimestamp(f) =>
            /\ GroupsOf(f) = {}
            /\ (call.fn = "group" /\ call.arg = f) => call.printed

(***************************************************************************)
(* s3_process.py, steps 4A to 4G: the rasters of geotiff_dir are stacked   *)
(* along time and the stack is aggregated by period.                       *)
(***************************************************************************)
MaxYear == 1   \* years after 2018 with acquisitions

None == [k |-> "None"]

DigitSeq == <<"0", "1", "2", "3", "4", "5", "6", "7", "8", "9">>
DigitValue(c) == (CHOOSE k \in 1..10 : DigitSeq[k] = c) - 1

\* int(q) of a sequence of digits
RECURSIVE IntOf(_)
IntOf(q) ==
    IF q = <<>> THEN 0
    ELSE 10 * IntOf(SubSeq(q, 1, Len(q) - 1)) + DigitValue(q[Len(q)])

IsLeap(y) == (y % 4 = 0 /\ y % 100 # 0) \/ y % 400 = 0
DaysInMonth(y, m) ==
    IF m = 2 THEN (IF IsLeap(y) THEN 29 ELSE 28)
    ELSE IF m \in {4, 6, 9, 11} THEN 30 ELSE 31

\* datetime.strptime(part, "%Y%m%dT%H%M%S") of a part of 15 characters: the
\* datetime, or None where strptime raises ValueError
strptime(part) ==
    LET Y == IntOf(SubSeq(part, 1, 4))
        m == IntOf(SubSeq(part, 5, 6))
        d == IntOf(SubSeq(part, 7, 8))
        H == IntOf(SubSeq(part, 10, 11))
        M == IntOf(SubSeq(part, 12, 13))
        S == IntOf(SubSeq(part, 14, 15))
    IN  IF \/ \E k \in (1..8) \cup (10..15) : part[k] \notin Digits
           \/ part[9] # "T"
        THEN None
        ELSE IF /\ m \in 1..12 /\ d >= 1 /\ d <= DaysInMonth(Y, m)
                /\ H <= 23 /\ M <= 59 /\ S <= 59
             THEN [year |-> Y, month |-> m, day |-> d,
                   hour |-> H, minute |-> M, second |-> S]
             ELSE None

\* Path(name).stem: the name without its last suffix
stem(name) ==
    LET dots == {i \in 2..Len(name) : name[i] = "."}
    IN  IF dots = {} THEN name
        ELSE SubSeq(name, 1, (CHOOSE i \in dots : \A j \in dots : j <= i) - 1)

\* s.split(sep)
RECURSIVE split(_, _)
split(s, sep) ==
    LET at == {i \in DOMAIN s : s[i] = sep}
        i == CHOOSE x \in at : \A y \in at : x <= y
    IN  IF at = {} THEN <<s>>
        ELSE <<SubSeq(s, 1, i - 1)>> \o split(SubSeq(s, i + 1, Len(s)), sep)

\* extract_datetime_from_filename(filepath): the datetime of the first part of
\* 15 characters that starts with "20"; None, with the message "Could not
\* extract timestamp", when there is no such part or strptime fails on it
extract_datetime_from_filename(name) ==
    LET parts == split(stem(name), "_")
        cand == {i \in DOMAIN parts :
                    Len(parts[i]) = 15 /\ SubSeq(parts[i], 1, 2) = <<"2", "0">>}
    IN  IF cand = {} THEN None
        ELSE strptime(parts[CHOOSE i \in cand : \A j \in cand : i <= j])

\* the characters of the file names, in the order of their codes
Ascii ==
    <<".", "0", "1", "2", "3", "4", "5", "6", "7", "8", "9",
      "A", "E", "M", "N", "S", "T", "_", "f", "i", "t">>
ord(c) == CHOOSE k \in DOMAIN Ascii : Ascii[k] = c
\* a < b for two strings
RECURSIVE StrLess(_, _)
StrLess(a, b) ==
    IF b = <<>> THEN FALSE
    ELSE IF a = <<>> THEN TRUE
    ELSE IF Head(a) = Head(b) THEN StrLess(Tail(a), Tail(b))
    ELSE ord(Head(a)) < ord(Head(b))

\* sorted(S) of a set of strings
sorted(S) ==
    CHOOSE q \in [1..Cardinality(S) -> S] :
        \A i, j \in 1..Cardinality(S) : i < j => StrLess(q[i], q[j])

\* days from 1 January 2018, a Monday, to the day of t
RECURSIVE DaysBeforeYear(_)
DaysBeforeYear(y) ==
    IF y <= 2018 THEN 0
    ELSE DaysBeforeYear(y - 1) + (IF IsLeap(y - 1) THEN 366 ELSE 365)
RECURSIVE DaysBeforeMonth(_, _)
DaysBeforeMonth(y, m) ==
    IF m = 1 THEN 0 ELSE DaysBeforeMonth(y, m - 1) + DaysInMonth(y, m - 1)
DayNumber(t) == DaysBeforeYear(t.year) + DaysBeforeMonth(t.year, t.month) + t.day - 1

\* midnight of the day with the number n
Midnight(y, m, d) ==
    [year |-> y, month |-> m, day |-> d, hour |-> 0, minute |-> 0, second |-> 0]
DayOfNumber(n) ==
    LET y == CHOOSE x \in 2018..(2018 + MaxYear) :
                 DaysBeforeYear(x) <= n /\ n < DaysBeforeYear(x + 1)
        r == n - DaysBeforeYear(y)
        m == CHOOSE x \in 1..12 :
                 DaysBeforeMonth(y, x) <= r /\ r < DaysBeforeMonth(y, x) + DaysInMonth(y, x)
    IN  Midnight(y, m, r - DaysBeforeMonth(y, m) + 1)

\* get_season(month) of the month of t
get_season(t) ==
    IF t.month \in {12, 1, 2} THEN "Winter"
    ELSE IF t.month \in {3, 4, 5} THEN "Spring"
    ELSE IF t.month \in {6, 7, 8} THEN "Summer"
    ELSE "Fall"

\* a variant of floor_D that keeps the hour
floor_H(t) == [t EXCEPT !.minute = 0, !.second = 0]

\* times.floor("D")
floor_D(t) == Midnight(t.year, t.month, t.day)
\* times.to_period("W").start_time: weeks end on Sunday
week_start(t) == DayOfNumber(DayNumber(t) - (DayNumber(t) % 7))
\* times.to_period("M").start_time
month_start(t) == Midnight(t.year, t.month, 1)
\* times.to_period("Y").start_time
year_start(t) == Midnight(t.year, 1, 1)

Intervals == {"daily", "weekly", "monthly", "annual", "seasonal"}

\* the value of the coordinate period for the time t
period(interval, t) ==
    CASE interval = "daily" -> floor_D(t)
      [] interval = "weekly" -> week_start(t)
      [] interval = "monthly" -> month_start(t)
      [] interval = "annual" -> year_start(t)
      [] interval = "seasonal" -> get_season(t)

\* the values of the times with the period key
RECURSIVE take(_, _, _)
take(data, periods, key) ==
    IF data = <<>> THEN <<>>
    ELSE (IF Head(periods) = key THEN <<Head(data)>> ELSE <<>>)
            \o take(Tail(data), Tail(periods), key)

\* aggregate_stack(ds, interval): ds after the call, and what is returned or
\* raised. The coordinate period is assigned on ds itself; the means are taken
\* per value of period, skipping NaN.
aggregate_stack(d, interval) ==
    IF interval \notin Intervals THEN [status |-> "ValueError", ds |-> d]
    ELSE LET periods == [i \in DOMAIN d.time |-> period(interval, d.time[i])]
             keys == {periods[i] : i \in DOMAIN periods}
         IN  [status |-> "returned",
              ds |-> [d EXCEPT !.coords = Put(@, "period", periods)],
              agg |-> [name |-> <<"TSM", interval>>,
                       mean |-> [key \in keys |-> np_nanmean(take(d.data, periods, key))]]]

\* Steps 4C to 4E: files = sorted(geotiff_dir.glob("TSM_*.tif")); the rasters
\* with a timestamp in their name are concatenated along time. pc: the step
\* of the script.
Stack ==
    /\ pc = "stack"
    /\ LET fs == sorted({f \in DOMAIN geotiff_dir :
                            SubSeq(f, 1, 4) = TSM_ /\ endswith(f, DotTif)})
           stamped == SelectSeq(fs, LAMBDA f : extract_datetime_from_filename(f) # None)
           skipped == {fs[i] : i \in DOMAIN fs} \ {stamped[i] : i \in DOMAIN stamped}
       IN  /\ call' = [fn |-> "stack", printed |-> skipped]
           /\ IF fs = <<>> \/ stamped = <<>>
              THEN pc' = "aborted" /\ ds' = ds
              ELSE /\ pc' = "aggregate"
                   /\ ds' = [name |-> "TSM",
                             time |-> [i \in DOMAIN stamped |->
                                        extract_datetime_from_filename(stamped[i])],
                             data |-> [i \in DOMAIN stamped |->
                                        geotiff_dir[stamped[i]].data[1][1]],
                             coords |-> [c \in {"time"} |->
                                          [i \in DOMAIN stamped |->
                                            extract_datetime_from_filename(stamped[i])]]]
    /\ UNCHANGED <<todo, res_deg, roi, zips, sen3, geotiff_dir, recl_dir, clip_dir,
                   composite_dir, grouped, files, agg, dlVars, srcVars>>

\* Step 4G: agg = aggregate_stack(stacked, interval=interval_choice)
AggregateStack ==
    /\ pc = "aggregate"
    /\ \E interval \in Intervals \cup {"hourly"} :
        LET out == aggregate_stack(ds, interval)
        IN  /\ ds' = out.ds
            /\ agg' = IF out.status = "returned" THEN out.agg ELSE agg
            /\ pc' = IF out.status = "returned" THEN "aggregated" ELSE "aborted"
            /\ call' = [fn |-> "aggregate_stack", arg |-> ds, interval |-> interval,
                        status |-> out.status]
    /\ UNCHANGED <<todo, res_deg, roi, zips, sen3, geotiff_dir, recl_dir, clip_dir,
                   composite_dir, grouped, files, dlVars, srcVars>>

NextStack == Stack \/ AggregateStack

(***************************************************************************)
(* The stack of up to two acquisitions around the ends of the periods.     *)
(***************************************************************************)
\* month and day of the acquisitions of a year
StackDays ==
    {<<1, 1>>, <<1, 5>>, <<1, 7>>, <<1, 8>>, <<1, 31>>, <<2, 1>>, <<2, 28>>,
     <<3, 1>>, <<6, 1>>, <<9, 1>>, <<12, 1>>, <<12, 31>>}
\* a pass at 09:30 on each of the days, and a second one at 11:00 on 5 January
StackTimes ==
    {[year |-> y, month |-> md[1], day |-> md[2], hour |-> 9, minute |-> 30, second |-> 0] :
        y \in 2018..(2018 + MaxYear), md \in StackDays}
    \cup {[year |-> y, month |-> 1, day |-> 5, hour |-> 11, minute |-> 0, second |-> 0] :
            y \in 2018..(2018 + MaxYear)}

\* n as two digits
Two(n) == <<DigitSeq[(n \div 10) + 1], DigitSeq[(n % 10) + 1]>>
\* TSM_S3A_<YYYYMMDDTHHMMSS>_002.SEN3.tif
StackName(t) ==
    TSM_ \o <<"S", "3", "A", "_">> \o Two(t.year \div 100) \o Two(t.year % 100)
         \o Two(t.month) \o Two(t.day) \o <<"T">> \o Two(t.hour) \o Two(t.minute)
         \o Two(t.second) \o <<"_", "0", "0", "2">> \o DotSEN3 \o DotTif
\* a name without a timestamp, and one with month 13
UntimedNames ==
    {TSM_ \o <<"S", "3", "A", "_", "2", "0", "1", "8", "_", "0", "0", "2">> \o DotSEN3 \o DotTif,
     TSM_ \o <<"S", "3", "A", "_", "2", "0", "1", "8", "1", "3", "0", "1", "T",
               "0", "9", "3", "0", "0", "0", "_", "0", "0", "2">> \o DotSEN3 \o DotTif}

\* the raster of one pixel with the value v
PointRaster(v) ==
    [x0 |-> RInt(0), y0 |-> RInt(StepKm), px |-> RInt(StepKm), py |-> RInt(StepKm),
     w |-> 1, h |-> 1, data |-> <<<<v>>>>]

InitStack ==
    /\ pc = "stack"
    /\ \E T \in {{}} \cup {{a, b} : a, b \in StackTimes},
          U \in {{}} \cup {{u} : u \in UntimedNames} :
         geotiff_dir = [f \in {StackName(t) : t \in T} \cup U |->
                            IF f \in U THEN PointRaster(NaN)
                            ELSE PointRaster(Num(IntOf(SubSeq(f, 18, 19))))]
    /\ todo = {}
    /\ res_deg = RInt(StepKm)
    /\ roi = {}
    /\ zips = Empty /\ sen3 = Empty /\ recl_dir = Empty /\ clip_dir = Empty
    /\ composite_dir = Empty /\ grouped = Empty /\ files = <<>>
    /\ call = NoCall
    /\ ds = NoStack /\ agg = NoStack
    /\ NoDownloads
    /\ NoSources

SpecStack == InitStack /\ [][NextStack]_vars

(***************************************************************************)
(* Claims about aggregate_stack.                                           *)
(***************************************************************************)
Aggregated == call.fn = "aggregate_stack" /\ call.status = "returned"
\* the time and the period key of entry i of the stack
TimeAt(i) == ds.time[i]
KeyAt(i) == ds.coords["period"][i]
SeasonOf(month) ==
    CASE month \in {12, 1, 2} -> "Winter"
      [] month \in {3, 4, 5} -> "Spring"
      [] month \in {6, 7, 8} -> "Summer"
      [] month \in {9, 10, 11} -> "Fall"
IsMidnight(key) == key.hour = 0 /\ key.minute = 0 /\ key.second = 0

\* C14: the acquisition of 20180105T093000 gets the daily key 2018-01-05, and
\* the seasonal key tells the year as well as the season: two acquisitions of
\* the same season of different years do not share a seasonal key.
C14_SeasonalKeyWithYear ==
    Aggregated =>
        /\ call.interval = "daily" =>
             \A i \in DOMAIN ds.time :
                (TimeAt(i).year = 2018 /\ TimeAt(i).month = 1 /\ TimeAt(i).day = 5)
                    => KeyAt(i) = Midnight(2018, 1, 5)
        /\ call.interval = "seasonal" =>
             \A i, j \in DOMAIN ds.time :
                TimeAt(i).year # TimeAt(j).year => KeyAt(i) # KeyAt(j)

\* the key the claim gives the time t
IsKeyOf(interval, key, t) ==
    CASE interval = "daily" ->
            /\ IsMidnight(key)
            /\ key.year = t.year /\ key.month = t.month /\ key.day = t.day
      [] interval = "weekly" ->
            /\ IsMidnight(key)
            /\ DayNumber(key) % 7 = 0   \* a Monday
            /\ DayNumber(key) <= DayNumber(t) /\ DayNumber(t) <= DayNumber(key) + 6
      [] interval = "monthly" ->
            /\ IsMidnight(key)
            /\ key.year = t.year /\ key.month = t.month /\ key.day = 1
      [] interval = "annual" ->
            /\ IsMidnight(key)
            /\ key.year = t.year /\ key.month = 1 /\ key.day = 1
      [] interval = "seasonal" -> key = SeasonOf(t.month)
\* the times t and u lie in the same period; a season is Winter, Spring,
\* Summer or Fall, of whatever year
SamePeriod(interval, t, u) ==
    CASE interval = "daily" -> t.year = u.year /\ t.month = u.month /\ t.day = u.day
      [] interval = "weekly" -> DayNumber(t) \div 7 = DayNumber(u) \div 7
      [] interval = "monthly" -> t.year = u.year /\ t.month = u.month
      [] interval = "annual" -> t.year = u.year
      [] interval = "seasonal" -> SeasonOf(t.month) = SeasonOf(u.month)

\* C15: each time gets the key of its period (its day, the Monday of its ISO
\* week, the first day of its month, its year, the season of its month), and
\* two times get the same key exactly when they lie in the same period.
C15_PeriodKeys ==
    Aggregated =>
        /\ \A i \in DOMAIN ds.time : IsKeyOf(call.interval, KeyAt(i), TimeAt(i))
        /\ \A i, j \in DOMAIN ds.time :
             KeyAt(i) = KeyAt(j) <=> SamePeriod(call.interval, TimeAt(i), TimeAt(j))
        /\ DOMAIN agg.mean = {KeyAt(i) : i \in DOMAIN ds.time}

\* two acquisitions of one ISO week in different years, aggregated by week
C15_Witness ==
    /\ Aggregated /\ call.interval = "weekly"
    /\ Len(ds.time) = 2
    /\ TimeAt(1).year # TimeAt(2).year
    /\ KeyAt(1) = KeyAt(2)

\* C20: a stage leaves its input as it was: reclassify_negative_to_zero the
\* raster it reads, aggregate_stack the dataset passed to it.
C20_InputsUnchanged ==
    [][/\ pc = "reclassify" => geotiff_dir' = geotiff_dir
       /\ pc = "aggregate" => ds' = ds]_vars

(***************************************************************************)
(* Step 6 on two rasters of one day on grids of their own: rasters of one  *)
(* row, of cells of StepKm or of 1 km, that start 0 to StepKm km east.     *)
(***************************************************************************)
ShiftedRaster(x0, px, w) ==
    [x0 |-> RInt(x0), y0 |-> RInt(StepKm), px |-> RInt(px), py |-> RInt(StepKm),
     w |-> w, h |-> 1, data |-> <<[j \in 1..w |-> Num(10 * j)]>>]
ShiftedRasters ==
    {ShiftedRaster(x0, px, w) : x0 \in 0..StepKm, px \in {1, StepKm}, w \in 1..2}

InitMosaic ==
    /\ pc = "clip"
    /\ todo = {}
    /\ res_deg = RInt(StepKm)
    /\ roi = {}
    /\ clip_dir \in [{PassName(1), PassName(2)} -> ShiftedRasters]
    /\ zips = Empty /\ sen3 = Empty /\ geotiff_dir = Empty /\ recl_dir = Empty
    /\ composite_dir = Empty /\ grouped = Empty /\ files = <<>>
    /\ call = NoCall
    /\ ds = NoStack /\ agg = NoStack
    /\ NoDownloads
    /\ NoSources

SpecMosaic == InitMosaic /\ [][NextMerge]_vars

(***************************************************************************)
(* Claims about the common grid of merge_and_average.                      *)
(***************************************************************************)
\* the rasters of the group of the last composite, in the order of the list
Srcs == [k \in DOMAIN grouped[call.arg] |-> clip_dir[grouped[call.arg][k]]]
\* the cell c of raster r has no point inside the extent of raster g
CellOutside(r, c, g) ==
    \/ RLe(East(g), RAdd(r.x0, RMul(RInt(c[2] - 1), r.px)))
    \/ RLe(RAdd(r.x0, RMul(RInt(c[2]), r.px)), West(g))
    \/ RLe(North(g), RSub(r.y0, RMul(RInt(c[1]), r.py)))
    \/ RLe(RSub(r.y0, RMul(RInt(c[1] - 1), r.py)), South(g))
\* every array of the stack has the shape of the composite
SameShape ==
    \A k \in DOMAIN Srcs :
        LET arr == reproject(Srcs[k], Grid(Composite))
        IN  /\ Len(arr) = Composite.h
            /\ \A i \in DOMAIN arr : Len(arr[i]) = Composite.w
\* the extent of the composite is the union of the extents of the members
UnionExtent ==
    /\ West(Composite) = RMinOf({West(Srcs[k]) : k \in DOMAIN Srcs})
    /\ East(Composite) = RMaxOf({East(Srcs[k]) : k \in DOMAIN Srcs})
    /\ South(Composite) = RMinOf({South(Srcs[k]) : k \in DOMAIN Srcs})
    /\ North(Composite) = RMaxOf({North(Srcs[k]) : k \in DOMAIN Srcs})
\* no valid pixel of a member lies outside the grid of the composite
ValidInside ==
    \A k \in DOMAIN Srcs :
        \A c \in Cells(Srcs[k]) :
            ~isnan(Value(Srcs[k], c)) => ~CellOutside(Srcs[k], c, Composite)

\* C16: the members of a group are reduced on one common grid, of the shape
\* and transform of the composite, whose extent is the union of the extents of
\* the members; no valid pixel of a member falls outside it.
C16_CommonGridUnion ==
    Merged => SameShape /\ UnionExtent /\ ValidInside

\* C17: a composite is written only once every file of the list was visited
\* by the grouping, the groups do not change any more, and the group reduced
\* holds every clipped file with its key.
C17_ReduceAfterGrouping ==
    [][composite_dir' # composite_dir =>
          /\ files = <<>>
          /\ grouped' = grouped
          /\ \A d \in DOMAIN grouped :
                {grouped[d][k] : k \in DOMAIN grouped[d]}
                    = {f \in Dated : group_1(f) = d}]_vars

\* a composite of a group of two files, written with a third file in the
\* directory
C17_Witness ==
    /\ Merged
    /\ Len(grouped[call.arg]) = 2
    /\ Cardinality(DOMAIN clip_dir) >= 3

(***************************************************************************)
(* merge_and_average step by step: the datasets it opens, reads, closes    *)
(* and queries. files is its argument. Any call of rasterio on a file may  *)
(* raise; merge_and_average catches nothing.                               *)
(***************************************************************************)
\* srcs = [rasterio.open(f) for f in files], one element of the list
OpenOne ==
    /\ pc = "open"
    /\ Len(srcs) < Len(files)
    /\ \E raised \in BOOLEAN :
        /\ call' = [fn |-> "open", arg |-> Len(srcs) + 1, closed |-> FALSE]
        /\ IF raised
           THEN pc' = "aborted" /\ srcs' = srcs
           ELSE /\ pc' = pc
                /\ srcs' = Append(srcs, [name |-> files[Len(srcs) + 1],
                                         closed |-> FALSE, closes |-> 0])
    /\ UNCHANGED <<todo, res_deg, roi, zips, sen3, geotiff_dir, recl_dir, clip_dir,
                   composite_dir, grouped, files, stackVars, dlVars, stack>>

\* merged, transform = merge(srcs, method="first"): every dataset is queried
\* and read
MergeSrcs ==
    /\ pc = "open"
    /\ Len(srcs) = Len(files)
    /\ \E raised \in BOOLEAN :
        /\ call' = [fn |-> "merge", arg |-> DOMAIN srcs,
                    closed |-> \E i \in DOMAIN srcs : srcs[i].closed]
        /\ pc' = IF raised THEN "aborted" ELSE "read"
    /\ UNCHANGED <<todo, res_deg, roi, zips, sen3, geotiff_dir, recl_dir, clip_dir,
                   composite_dir, grouped, files, stackVars, dlVars, srcVars>>

\* for src in srcs: arr = src.read(1); reproject(..., src.transform, src.crs,
\* ...); stack.append(reproj)
ReadOne ==
    /\ pc = "read"
    /\ Len(stack) < Len(srcs)
    /\ LET i == Len(stack) + 1
       IN  \E raised \in BOOLEAN :
            /\ call' = [fn |-> "read", arg |-> i, closed |-> srcs[i].closed]
            /\ IF raised
               THEN pc' = "aborted" /\ stack' = stack
               ELSE pc' = pc /\ stack' = Append(stack, srcs[i].name)
    /\ UNCHANGED <<todo, res_deg, roi, zips, sen3, geotiff_dir, recl_dir, clip_dir,
                   composite_dir, grouped, files, stackVars, dlVars, srcs>>

\* the datasets the loop of close has visited
Visited == {i \in DOMAIN srcs : srcs[i].closes > 0}

\* for s in srcs: s.close()
CloseOne ==
    /\ \/ pc = "read" /\ Len(stack) = Len(srcs)
       \/ pc = "close"
    /\ Visited # DOMAIN srcs
    /\ LET i == Cardinality(Visited) + 1
       IN  /\ srcs' = [srcs EXCEPT ![i] = [@ EXCEPT !.closed = TRUE,
                                                    !.closes = @ + 1]]
           /\ call' = [fn |-> "close", arg |-> i, closed |-> srcs[i].closed]
    /\ pc' = "close"
    /\ UNCHANGED <<todo, res_deg, roi, zips, sen3, geotiff_dir, recl_dir, clip_dir,
                   composite_dir, grouped, files, stackVars, dlVars, stack>>

\* return np.nanmean(np.stack(stack), axis=0), transform, srcs[0].meta.copy():
\* the first dataset is asked for its metadata; whether a closed dataset
\* answers or raises is up to the build of rasterio
ReturnMeta ==
    /\ pc = "close"
    /\ Visited = DOMAIN srcs
    /\ call' = [fn |-> "meta", arg |-> 1, closed |-> srcs[1].closed]
    /\ \E raised \in BOOLEAN : pc' = IF raised THEN "aborted" ELSE "returned"
    /\ UNCHANGED <<todo, res_deg, roi, zips, sen3, geotiff_dir, recl_dir, clip_dir,
                   composite_dir, grouped, files, stackVars, dlVars, srcVars>>

NextSources == OpenOne \/ MergeSrcs \/ ReadOne \/ CloseOne \/ ReturnMeta

\* merge_and_average on every list of 1..MaxGroup of the clipped rasters
InitSources ==
    /\ pc = "open"
    /\ clip_dir = [f \in {PassName(i) : i \in 1..MaxGroup} |->
                      RowRaster(<<Num(10), NaN>>)]
    /\ \E S \in SUBSET DOMAIN clip_dir : S # {} /\ files \in Orders(S)
    /\ srcs = <<>> /\ stack = <<>>
    /\ todo = {}
    /\ res_deg = RInt(StepKm)
    /\ roi = {}
    /\ zips = Empty /\ sen3 = Empty /\ geotiff_dir = Empty /\ recl_dir = Empty
    /\ composite_dir = Empty /\ grouped = Empty
    /\ call = NoCall
    /\ ds = NoStack /\ agg = NoStack
    /\ NoDownloads

SpecSources == InitSources /\ [][NextSources]_vars

\* C23: when merge_and_average is over every dataset it opened was closed
\* exactly once, and no dataset is read or queried once it is closed.
C23_ClosedOnceNoUseAfterClose ==
    /\ pc \in {"returned", "aborted"} => \A i \in DOMAIN srcs : srcs[i].closes = 1
    /\ call.fn \in {"merge", "read", "meta"} => ~call.closed

(***************************************************************************)
(* s3_download_local_CL.py: parse_batch_arg and make_batch_name.  A string *)
(* is the sequence of its characters.                                      *)
(***************************************************************************)
MaxParts == 4   \* comma-separated parts of a --batch string

\* s.strip(), of the spaces
RECURSIVE strip(_)
strip(s) ==
    IF s = <<>> THEN s
    ELSE IF Head(s) = " " THEN strip(Tail(s))
    ELSE IF s[Len(s)] = " " THEN strip(SubSeq(s, 1, Len(s) - 1))
    ELSE s

\* datetime.strptime(s, "%Y-%m-%d"): the date, or None where it raises
\* ValueError. %Y takes four digits, %m and %d one or two.
strptime_Ymd(s) ==
    LET parts == split(s, "-")
        digits(q) == q # <<>> /\ \A k \in DOMAIN q : q[k] \in Digits
    IN  IF \/ Len(parts) # 3
           \/ \E k \in 1..3 : ~digits(parts[k])
           \/ Len(parts[1]) # 4 \/ Len(parts[2]) > 2 \/ Len(parts[3]) > 2
        THEN None
        ELSE LET Y == IntOf(parts[1])
                 m == IntOf(parts[2])
                 d == IntOf(parts[3])
             IN  IF Y >= 1 /\ m \in 1..12 /\ d >= 1 /\ d <= DaysInMonth(Y, m)
                 THEN [year |-> Y, month |-> m, day |-> d]
                 ELSE None

\* strftime('%b'), '%d' and '%Y'
MonthAbbr ==
    <<<<"J", "a", "n">>, <<"F", "e", "b">>, <<"M", "a", "r">>, <<"A", "p", "r">>,
      <<"M", "a", "y">>, <<"J", "u", "n">>, <<"J", "u", "l">>, <<"A", "u", "g">>,
      <<"S", "e", "p">>, <<"O", "c", "t">>, <<"N", "o", "v">>, <<"D", "e", "c">>>>
Digit(n) == DigitSeq[n + 1]
strftime_d(t) == <<Digit(t.day \div 10), Digit(t.day % 10)>>
strftime_Y(t) ==
    <<Digit(t.year \div 1000), Digit((t.year \div 100) % 10),
      Digit((t.year \div 10) % 10), Digit(t.year % 10)>>

\* make_batch_name(start, end): %b%d-%d_%Y, or None where strptime raises
make_batch_name(start, end) ==
    LET start_dt == strptime_Ymd(start)
        end_dt == strptime_Ymd(end)
    IN  IF start_dt = None \/ end_dt = None THEN None
        ELSE MonthAbbr[start_dt.month] \o strftime_d(start_dt) \o <<"-">>
             \o strftime_d(end_dt) \o <<"_">> \o strftime_Y(end_dt)

Coll0407 == <<"0", "4", "0", "7">>

\* parse_batch_arg(batch_str): the record returned, or the exception raised
parse_batch_arg(batch_str) ==
    LET raw == split(batch_str, ",")
        parts == [k \in DOMAIN raw |-> strip(raw[k])]
        n == Len(parts)
        ValueError == [status |-> "ValueError"]
        IndexError == [status |-> "IndexError"]
        checked(name, start, end, collection) ==
            IF strptime_Ymd(start) = None \/ strptime_Ymd(end) = None
            THEN ValueError
            ELSE [status |-> "returned", name |-> name, start |-> start,
                  end |-> end, collection |-> collection]
    IN  IF n \notin {2, 3, 4} THEN ValueError
        ELSE IF parts[1] = <<>> THEN IndexError
        ELSE IF parts[1][1] \in Digits
        THEN IF make_batch_name(parts[1], parts[2]) = None THEN ValueError
             ELSE checked(make_batch_name(parts[1], parts[2]), parts[1], parts[2],
                          IF n = 3 THEN parts[3] ELSE Coll0407)
        ELSE IF n < 3 THEN IndexError
        ELSE checked(parts[1], parts[2], parts[3],
                     IF n = 4 THEN parts[4] ELSE Coll0407)

\* batch = parse_batch_arg(b) for a --batch argument b, held in call
ParseBatchArg ==
    /\ pc = "parse"
    /\ pc' = "parsed"
    /\ call' = [fn |-> "parse_batch_arg", arg |-> call.arg,
                out |-> parse_batch_arg(call.arg)]
    /\ UNCHANGED <<todo, res_deg, roi, zips, sen3, geotiff_dir, recl_dir, clip_dir,
                   composite_dir, grouped, files, stackVars, dlVars, srcVars>>

\* the parts of the strings: nothing, a name, two dates, a month that does
\* not exist, a date without its zeros, a collection, with a space or not
DateA == <<"2", "0", "1", "8", "-", "0", "1", "-", "0", "4">>
DateB == <<"2", "0", "1", "8", "-", "0", "1", "-", "1", "6">>
Coll0556 == <<"0", "5", "5", "6">>
PartChoices ==
    {<<>>, <<"N">>, DateA, DateB,
     <<"2", "0", "1", "8", "-", "1", "3", "-", "0", "1">>,
     <<"2", "0", "1", "8", "-", "1", "-", "4">>,
     Coll0556, <<" ">> \o Coll0556}

\* ",".join(parts)
RECURSIVE join(_)
join(parts) ==
    IF Len(parts) = 1 THEN parts[1]
    ELSE parts[1] \o <<",">> \o join(Tail(parts))

BatchStrings ==
    {join(q) : q \in UNION {[1..n -> PartChoices] : n \in 1..MaxParts}}

InitParse ==
    /\ pc = "parse"
    /\ \E b \in BatchStrings : call = [fn |-> "argv", arg |-> b]
    /\ todo = {}
    /\ res_deg = RInt(StepKm)
    /\ roi = {}
    /\ zips = Empty /\ sen3 = Empty /\ geotiff_dir = Empty /\ recl_dir = Empty
    /\ clip_dir = Empty /\ composite_dir = Empty /\ grouped = Empty /\ files = <<>>
    /\ ds = NoStack /\ agg = NoStack
    /\ NoDownloads
    /\ NoSources

SpecParse == InitParse /\ [][ParseBatchArg]_vars

\* a date written YYYY-MM-DD
IsYmd(s) == Len(s) = 10 /\ strptime_Ymd(s) # None
\* the parts of the argument, and the collection it gives, if any
ArgParts == LET raw == split(call.arg, ",") IN [k \in DOMAIN raw |-> strip(raw[k])]
Unnamed == ArgParts[1] # <<>> /\ ArgParts[1][1] \in Digits
GivenCollection ==
    IF Unnamed THEN (IF Len(ArgParts) >= 3 THEN ArgParts[3] ELSE Coll0407)
    ELSE (IF Len(ArgParts) >= 4 THEN ArgParts[4] ELSE Coll0407)
Parsed == call.fn = "parse_batch_arg"

\* C30: parse_batch_arg raises ValueError or returns a record whose start and
\* end are dates YYYY-MM-DD and whose collection is the one of the string, 0407
\* when it gives none; each of the four documented formats is accepted.
C30_ParseOrValueError ==
    Parsed =>
        /\ \/ call.out.status = "ValueError"
           \/ /\ call.out.status = "returned"
              /\ IsYmd(call.out.start) /\ IsYmd(call.out.end)
              /\ call.out.collection = GivenCollection
        /\ call.arg \in {join(<<DateA, DateB>>), join(<<DateA, DateB, Coll0556>>),
                        join(<<<<"N">>, DateA, DateB>>),
                        join(<<<<"N">>, DateA, DateB, Coll0556>>)} =>
             call.out.status = "returned"

(***************************************************************************)
(* The downloaders: s3_download.py (process_batch, main) and               *)
(* s3_download_local_CL.py (S3Downloader.download_batch,                   *)
(* download_multiple_batches). The two share their structure; script says  *)
(* which one runs.                                                         *)
(***************************************************************************)
MaxProducts == 2

Scripts == {"s3_download", "s3_download_local_CL"}

\* the literals the log rows carry in place of a product
NA == <<"N", "/", "A">>
BATCH_SUMMARY == <<"B", "A", "T", "C", "H", "_", "S", "U", "M", "M", "A", "R", "Y">>
BATCH_ERROR == <<"B", "A", "T", "C", "H", "_", "E", "R", "R", "O", "R">>

\* process_filename / _process_filename
process_filename(product_name) ==
    IF endswith(product_name, DotSEN3) THEN product_name \o DotZip
    ELSE IF ~endswith(product_name, DotZip) THEN product_name \o DotSEN3 \o DotZip
    ELSE product_name

\* the line writer.writeheader() writes
HeaderLine ==
    [kind |-> "header",
     fieldnames |-> <<"timestamp", "batch_name", "product_name", "zip_filename",
                      "status", "file_size_mb", "error_message",
                      "download_time_seconds">>]

\* a variant of create_log_file that opens the file for writing whether it
\* exists or not
create_log_file_truncating(logs, batch_name) == Put(logs, batch_name, <<HeaderLine>>)

\* create_log_file / _create_log_file: the header is written when the file
\* does not exist
create_log_file(logs, batch_name) ==
    IF batch_name \in DOMAIN logs THEN logs ELSE Put(logs, batch_name, <<HeaderLine>>)

\* log_download_result / _log_result: one row appended (the timestamp, the
\* size and the duration are left out)
log_download_result(logs, batch_name, product_name, zip_filename, status, error_message) ==
    [logs EXCEPT ![batch_name] =
        Append(@, [kind |-> "row", batch_name |-> batch_name,
                   product_name |-> product_name, zip_filename |-> zip_filename,
                   status |-> status, error_message |-> error_message])]

\* the f-string of the summary row
SummaryMessage(s) ==
    <<"Found", s.total, "Success", s.downloaded, "Skipped", s.skipped,
      "Failed", s.failed>>

\* the start of process_batch / download_batch, before their try: the dates
\* are parsed or formatted and the log file of the batch is made. What is
\* raised there (a date that strptime refuses, a log file that cannot be
\* created) leaves the function: main of s3_download.py catches it and goes on
\* with the next batch, download_multiple_batches catches nothing.
BatchStart ==
    /\ pc = "batch"
    /\ batch_configs # <<>>
    /\ \E raised \in BOOLEAN :
        IF ~raised
        THEN /\ log_files' = create_log_file(log_files, Head(batch_configs))
             /\ pc' = "search"
             /\ call' = [fn |-> "create_log_file", arg |-> Head(batch_configs)]
             /\ UNCHANGED batch_configs
        ELSE /\ call' = [fn |-> "raised", arg |-> Head(batch_configs)]
             /\ pc' = IF script = "s3_download" THEN "batch" ELSE "aborted"
             /\ batch_configs' = IF script = "s3_download" THEN Tail(batch_configs)
                                 ELSE batch_configs
             /\ UNCHANGED log_files
    /\ UNCHANGED <<todo, res_deg, roi, zips, sen3, geotiff_dir, recl_dir, clip_dir,
                   composite_dir, grouped, files, stackVars, script,
                   product_list, download_dir, stats, runs, all_stats, srcVars>>

\* what collection.search may give: an exception of the data store, or the
\* products found, each once
DataStoreError == <<"error">>
Catalogue ==
    {<<"A">> \o DotSEN3, <<"B">>, <<"C">> \o DotZip}
SearchResults ==
    {DataStoreError} \cup
    UNION {{q \in [1..n -> Catalogue] : \A i, j \in 1..n : q[i] = q[j] => i = j} :
             n \in 0..MaxProducts}

\* all_stats.append((batch_name, stats)) in download_multiple_batches, stats
\* being None when download_batch caught an exception; s3_download.py keeps no
\* list
Returned(list, batch_name, record) ==
    IF script = "s3_download_local_CL" THEN Append(list, <<batch_name, record>>)
    ELSE list

\* the search of the batch; an exception or an empty result ends the batch
Search ==
    /\ pc = "search"
    /\ \E found \in SearchResults :
        LET batch_name == Head(batch_configs)
        IN  /\ call' = [fn |-> "search", arg |-> batch_name, found |-> found]
            /\ IF found = DataStoreError
               THEN /\ log_files' =
                         IF script = "s3_download"
                         THEN log_download_result(log_files, batch_name, BATCH_ERROR,
                                                  NA, "BATCH_FAILED", <<"error">>)
                         ELSE log_files
                    /\ batch_configs' = Tail(batch_configs)
                    /\ pc' = "batch"
                    /\ all_stats' = Returned(all_stats, batch_name, None)
                    /\ UNCHANGED <<product_list, stats>>
               ELSE IF Len(found) = 0
               THEN /\ log_files' =
                         IF script = "s3_download"
                         THEN log_download_result(log_files, batch_name, NA, NA,
                                                  "NO_PRODUCTS_FOUND", <<>>)
                         ELSE log_files
                    /\ batch_configs' = Tail(batch_configs)
                    /\ pc' = "batch"
                    /\ stats' = NoStats
                    /\ all_stats' = Returned(all_stats, batch_name, NoStats)
                    /\ UNCHANGED product_list
               ELSE /\ product_list' = found
                    /\ stats' = [NoStats EXCEPT !.total = Len(found)]
                    /\ pc' = "download"
                    /\ UNCHANGED <<log_files, batch_configs, all_stats>>
    /\ UNCHANGED <<todo, res_deg, roi, zips, sen3, geotiff_dir, recl_dir, clip_dir,
                   composite_dir, grouped, files, stackVars, script, download_dir,
                   runs, srcVars>>

\* a variant of os_path_exists that finds no file
os_path_exists_never(dir, file_path) == FALSE

\* os.path.exists(file_path)
os_path_exists(dir, file_path) == file_path \in DOMAIN dir

\* a variant of counted that does not count the skipped products
counted_but_skipped(s, field) ==
    IF field = "skipped" THEN s ELSE [s EXCEPT ![field] = @ + 1]

\* stats[field] += 1 (successful_downloads, skipped_files and failed_downloads
\* in s3_download.py)
counted(s, field) == [s EXCEPT ![field] = @ + 1]

\* how the download of a product may end: the copy completes; an exception is
\* raised and no file is left (none was created, or the partial one was
\* removed); an exception is raised in the copy and os.remove raises as well,
\* which is passed over; KeyboardInterrupt arrives in the copy
DownloadOutcomes == {"downloaded", "raised", "raised_kept", "interrupted"}

\* one pass of the download loop: the product is skipped when a file exists at
\* the path of its archive, else it is downloaded. KeyboardInterrupt is no
\* Exception: it leaves process_batch, and main of s3_download.py ends its
\* loop on it; nothing catches it in s3_download_local_CL.py.
DownloadOne ==
    /\ pc = "download"
    /\ product_list # <<>>
    /\ LET batch_name == Head(batch_configs)
           product_name == Head(product_list)
           zip_filename == process_filename(product_name)
       IN  IF os_path_exists(download_dir, zip_filename)
           THEN /\ log_files' =
                     log_download_result(log_files, batch_name, product_name,
                         zip_filename,
                         IF script = "s3_download" THEN "SKIPPED_EXISTS" ELSE "SKIPPED",
                         <<>>)
                /\ stats' = counted(stats, "skipped")
                /\ call' = [fn |-> "download", arg |-> product_name, opened |-> FALSE,
                            outcome |-> "skipped"]
                /\ product_list' = Tail(product_list)
                /\ UNCHANGED <<download_dir, pc>>
           ELSE \E outcome \in DownloadOutcomes :
                /\ call' = [fn |-> "download", arg |-> product_name, opened |-> TRUE,
                            outcome |-> outcome]
                /\ download_dir' =
                     CASE outcome = "downloaded" ->
                            Put(download_dir, zip_filename, [complete |-> TRUE])
                       [] outcome = "raised" ->
                            [z \in DOMAIN download_dir \ {zip_filename} |->
                                download_dir[z]]
                       [] OTHER ->
                            Put(download_dir, zip_filename, [complete |-> FALSE])
                /\ log_files' =
                     CASE outcome = "downloaded" ->
                            log_download_result(log_files, batch_name, product_name,
                                                zip_filename, "SUCCESS", <<>>)
                       [] outcome = "interrupted" -> log_files
                       [] OTHER ->
                            log_download_result(log_files, batch_name, product_name,
                                                zip_filename, "FAILED", <<"error">>)
                /\ stats' = CASE outcome = "downloaded" -> counted(stats, "downloaded")
                              [] outcome = "interrupted" -> stats
                              [] OTHER -> counted(stats, "failed")
                /\ product_list' = IF outcome = "interrupted" THEN product_list
                                   ELSE Tail(product_list)
                /\ pc' = IF outcome # "interrupted" THEN pc
                         ELSE IF script = "s3_download" THEN "done" ELSE "interrupted"
    /\ UNCHANGED <<todo, res_deg, roi, zips, sen3, geotiff_dir, recl_dir,
                   clip_dir, composite_dir, grouped, files, stackVars, script,
                   batch_configs, runs, all_stats, srcVars>>

\* the end of the download loop: the summary of the batch
Summary ==
    /\ pc = "download"
    /\ product_list = <<>>
    /\ log_files' =
         IF script = "s3_download"
         THEN log_download_result(log_files, Head(batch_configs), BATCH_SUMMARY, NA,
                                  "SUMMARY", SummaryMessage(stats))
         ELSE log_files
    /\ batch_configs' = Tail(batch_configs)
    /\ pc' = "batch"
    /\ call' = [fn |-> "summary", arg |-> stats]
    /\ all_stats' = Returned(all_stats, Head(batch_configs), stats)
    /\ UNCHANGED <<todo, res_deg, roi, zips, sen3, geotiff_dir, recl_dir, clip_dir,
                   composite_dir, grouped, files, stackVars, script, product_list,
                   download_dir, stats, runs, srcVars>>

\* the loop over the batches is over
AllBatchesCompleted ==
    /\ pc = "batch"
    /\ batch_configs = <<>>
    /\ pc' = "done"
    /\ UNCHANGED <<todo, res_deg, roi, zips, sen3, geotiff_dir, recl_dir, clip_dir,
                   composite_dir, grouped, files, stackVars, dlVars, srcVars, call>>

NextDownload == BatchStart \/ Search \/ DownloadOne \/ Summary \/ AllBatchesCompleted

\* the batches of a run; the same name twice is the batch run again
BatchLists ==
    {<<"Batch_01">>, <<"Batch_01", "Batch_02">>, <<"Batch_01", "Batch_01">>}

InitDownload ==
    /\ pc = "batch"
    /\ script \in Scripts
    /\ batch_configs \in BatchLists
    /\ log_files = Empty
    /\ product_list = <<>>
    /\ \E S \in SUBSET {process_filename(p) : p \in Catalogue} :
         download_dir = [z \in S |-> [complete |-> TRUE]]
    /\ stats = NoStats
    /\ runs = 0
    /\ all_stats = <<>>
    /\ todo = {}
    /\ res_deg = RInt(StepKm)
    /\ roi = {}
    /\ zips = Empty /\ sen3 = Empty /\ geotiff_dir = Empty /\ recl_dir = Empty
    /\ clip_dir = Empty /\ composite_dir = Empty /\ grouped = Empty /\ files = <<>>
    /\ call = NoCall
    /\ ds = NoStack /\ agg = NoStack
    /\ NoSources

SpecDownload == InitDownload /\ [][NextDownload]_vars

(***************************************************************************)
(* The downloader started again after it ended or was interrupted: the     *)
(* logs and the archives of the earlier runs are on the disk.              *)
(***************************************************************************)
MaxRuns == 1

Rerun ==
    /\ pc \in {"done", "interrupted"}
    /\ runs < MaxRuns
    /\ runs' = runs + 1
    /\ pc' = "batch"
    /\ batch_configs' \in BatchLists
    /\ product_list' = <<>>
    /\ stats' = NoStats
    /\ all_stats' = <<>>
    /\ call' = [fn |-> "main"]
    /\ UNCHANGED <<todo, res_deg, roi, zips, sen3, geotiff_dir, recl_dir, clip_dir,
                   composite_dir, grouped, files, stackVars, script, log_files,
                   download_dir, srcVars>>

NextRerun == NextDownload \/ Rerun

\* the first run starts with no archive and no log
InitRerun ==
    /\ InitDownload
    /\ download_dir = Empty
    /\ Len(batch_configs) = 1

SpecRerun == InitRerun /\ [][NextRerun]_vars

(***************************************************************************)
(* Claims about the downloaders.                                           *)
(***************************************************************************)
LogStatuses == {"SUCCESS", "FAILED", "SKIPPED", "NO_PRODUCTS_FOUND", "SUMMARY"}

\* the rows of the logs, the headers apart
LogRows ==
    UNION {{log_files[b][i] : i \in {j \in DOMAIN log_files[b] :
                                        log_files[b][j].kind = "row"}} :
             b \in DOMAIN log_files}

\* C19: every row of every batch's log has a status among SUCCESS, FAILED,
\* SKIPPED, NO_PRODUCTS_FOUND and SUMMARY.
C19_LogStatuses == \A row \in LogRows : row.status \in LogStatuses

\* the product the download loop is about to visit, and its archive
NextProduct == Head(product_list)
NextZip == process_filename(NextProduct)
AtProduct == pc = "download" /\ product_list # <<>>
\* the rows a step appends to the log of the batch that runs
NewRows ==
    SubSeq(log_files'[Head(batch_configs)], Len(log_files[Head(batch_configs)]) + 1,
           Len(log_files'[Head(batch_configs)]))

\* C24: a product whose archive exists in download_dir is not opened; the
\* directory is left as it is, one row of a skip is logged for the product,
\* the skipped counter alone goes up by one, and the loop goes on with the
\* next product.
C24_ExistingSkipped ==
    [][(AtProduct /\ NextZip \in DOMAIN download_dir) =>
        /\ ~call'.opened
        /\ download_dir' = download_dir
        /\ Len(NewRows) = 1
        /\ NewRows[1].product_name = NextProduct
        /\ NewRows[1].zip_filename = NextZip
        /\ NewRows[1].status \in {"SKIPPED", "SKIPPED_EXISTS"}
        /\ stats' = [stats EXCEPT !.skipped = @ + 1]
        /\ product_list' = Tail(product_list)
        /\ pc' = "download"]_vars

\* a product was skipped, its archive is there, and a product is left in the
\* list
C24_Witness ==
    /\ call.fn = "download" /\ call.outcome = "skipped"
    /\ process_filename(call.arg) \in DOMAIN download_dir
    /\ AtProduct

\* C25: when the download of a product raises an exception, one FAILED row
\* is logged for it, no file is left at the path of its archive, and the loop
\* goes on with the next product.
C25_FailedLeavesNoFile ==
    [][(AtProduct /\ call'.fn = "download"
                  /\ call'.outcome \in {"raised", "raised_kept"}) =>
        /\ Len(NewRows) = 1
        /\ NewRows[1].product_name = NextProduct
        /\ NewRows[1].status = "FAILED"
        /\ NextZip \notin DOMAIN download_dir'
        /\ product_list' = Tail(product_list)
        /\ pc' = "download"]_vars

\* C26: a product is skipped only for a complete archive: no run, interrupted
\* or not, leaves a partial file that is taken for a download.
C26_SkippedIsComplete ==
    (call.fn = "download" /\ call.outcome = "skipped") =>
        download_dir[process_filename(call.arg)].complete

\* the products a record of counters has counted
Counted(s) == s.downloaded + s.skipped + s.failed

\* C27: in the download loop every product visited is counted once, as
\* downloaded, skipped or failed, so the record given at the end of the batch
\* has total = downloaded + skipped + failed.
C27_StatsAddUp ==
    /\ pc = "download" => Counted(stats) + Len(product_list) = stats.total
    /\ call.fn = "summary" => Counted(call.arg) = call.arg.total

\* the record of a batch with a skipped product and a failed one
C27_Witness ==
    /\ call.fn = "summary"
    /\ call.arg.skipped = 1 /\ call.arg.failed = 1 /\ call.arg.total = 2

\* C28: the log of a batch starts with its one header line, and a step keeps
\* every line the log had, in place: lines are only appended, whether the
\* batch name is new or was run before.
C28_LogAppendOnly ==
    [][/\ \A b \in DOMAIN log_files' :
            {i \in DOMAIN log_files'[b] : log_files'[b][i].kind = "header"} = {1}
       /\ \A b \in DOMAIN log_files :
            /\ b \in DOMAIN log_files'
            /\ Len(log_files'[b]) >= Len(log_files[b])
            /\ SubSeq(log_files'[b], 1, Len(log_files[b])) = log_files[b]]_vars

\* a batch name is run a second time: its log is there, with rows, when the
\* search of the second run starts
C28_Witness ==
    /\ pc = "search"
    /\ call.fn = "create_log_file" /\ call.arg = Head(batch_configs)
    /\ Len(log_files[Head(batch_configs)]) >= 2

\* the batch names of a list of (batch_name, stats)
NamesOf(list) == [i \in DOMAIN list |-> list[i][1]]

\* C29: no failure of a batch ends the loop over the batches; in
\* download_multiple_batches every batch that is left behind, failed or not,
\* has its entry appended, so that the entries and the batches yet to run stay
\* the input list, in order; the entry of a batch that failed is None.
C29_FailedBatchRecorded ==
    [][/\ pc' # "aborted"
       /\ script = "s3_download_local_CL" =>
            /\ NamesOf(all_stats') \o batch_configs' = NamesOf(all_stats) \o batch_configs
            /\ (call'.fn = "search" /\ call'.found = DataStoreError) =>
                    all_stats'[Len(all_stats')][2] = None]_vars

(***************************************************************************)
(* Steps 1 and 2 of main alone.                                            *)
(***************************************************************************)
NextUnzip == UnzipOne \/ Cleanup

SpecUnzip == Init /\ [][NextUnzip]_vars

\* C18: a malformed archive is reported and left in place and the loop goes
\* on; an archive is removed only when it was extracted; when the loop ends
\* every archive that is not malformed has been extracted.
C18_BadZipSkipped ==
    [][/\ (pc = "unzip" /\ pc' = "unzip") =>
            LET z == call'.arg
            IN  /\ zips[z].bad =>
                     /\ zips' = zips /\ sen3' = sen3
                     /\ call'.printed = "Bad zip file"
                /\ z \notin DOMAIN zips' =>
                     ~zips[z].bad /\ zips[z].dir \in DOMAIN sen3'
       /\ (pc = "unzip" /\ pc' # "unzip") =>
            /\ pc' # "aborted"
            /\ \A z \in DOMAIN zips : zips[z].bad]_vars

\* an archive is extracted after a malformed one was visited and kept
C18_Witness ==
    /\ pc = "unzip"
    /\ call.fn = "unzip_and_delete" /\ call.printed = "Unzipped"
    /\ \E z \in DOMAIN zips \ todo : zips[z].bad

(***************************************************************************)
(* Claims about main.                                                      *)
(***************************************************************************)
\* the ROI and the extent of a raster have no point in common
Disjoint(r, geometry) ==
    \A rect \in geometry :
        \/ RLe(East(r), RInt(rect.w)) \/ RLe(RInt(rect.e), West(r))
        \/ RLe(North(r), RInt(rect.s)) \/ RLe(RInt(rect.n), South(r))

\* C7: when the ROI lies outside the extent of a raster, the failure of its
\* clip is confined to that raster: nothing is written for it and the run goes
\* on with the remaining rasters and the composites.
C7_DisjointClipSkipped ==
    (call.fn = "clip_geotiff" /\ Disjoint(recl_dir[call.arg], roi)) =>
        /\ call.arg \notin DOMAIN clip_dir
        /\ pc # "aborted"

\* C8: a swath without a pixel that is finite in measurement, latitude and
\* longitude never gets a raster; the call ends with the report of no valid
\* pixels and the loop of main goes on with the remaining products.
C8_EmptySwathSkipped ==
    /\ \A d \in DOMAIN sen3 :
         mask(sen3[d].swath) = {} => TifName(d) \notin DOMAIN geotiff_dir
    /\ (Created /\ mask(SwathIn) = {}) =>
         call.out.status = "no_valid_pixels" /\ pc # "aborted"

\* whether a raster has a negative pixel
HasNegative(r) == \E c \in Cells(r) : FLess(Value(r, c), Num(0))

\* C22: no composite has a finite negative pixel; every raster of the
\* clipped directory is the clip of the reclassified raster of its name,
\* which is the reclassification of the resampled raster of its name, and
\* has no negative pixel either.
C22_CompositeNotNegative ==
    /\ \A f \in DOMAIN composite_dir :
         \A c \in Cells(composite_dir[f]) :
            LET v == Value(composite_dir[f], c)
            IN  isfinite(v) => RLe(RInt(0), AsRat(v))
    /\ \A f \in DOMAIN recl_dir :
         /\ f \in DOMAIN geotiff_dir
         /\ recl_dir[f] = reclassify_negative_to_zero(geotiff_dir[f])
    /\ \A f \in DOMAIN clip_dir :
         /\ f \in DOMAIN recl_dir
         /\ clip_dir[f] = clip_geotiff(recl_dir[f], roi).raster
         /\ ~HasNegative(clip_dir[f])

\* a composite is written for a day one of whose resampled rasters has a
\* negative pixel, and it has a pixel with a value
C22_Witness ==
    \E date \in DOMAIN grouped :
        /\ DailyName(date) \in DOMAIN composite_dir
        /\ \E c \in Cells(composite_dir[DailyName(date)]) :
             isfinite(Value(composite_dir[DailyName(date)], c))
        /\ \E k \in DOMAIN grouped[date] : HasNegative(geotiff_dir[grouped[date][k]])

\* a raster is saved for a product after a product without a valid pixel was
\* visited
C8_Witness ==
    /\ Saved /\ pc = "geotiff"
    /\ \E d \in DOMAIN sen3 \ todo :
         /\ {"tsm_nn.nc", "geo_coordinates.nc"} \subseteq sen3[d].files
         /\ mask(sen3[d].swath) = {}
         /\ valid_input_index(sen3[d].swath) # {}

=============================================================================
